---- MODULE Spec2Model ----
(***************************************************************************)
(* A model of the excelize cell / formula / worksheet core:                *)
(*   - the formula evaluator (evalInfixExp, parseToken, calculate),        *)
(*   - the function library sample (ARABIC, SQRT, SUM, ...),               *)
(*   - the worksheet store (checkSheet, checkRow, prepareCell),            *)
(*   - the shared string table (setSharedString, SetCellRichText),         *)
(*   - merged cells, shared formulas and the cell style cascade.           *)
(*                                                                         *)
(* A Go string is modelled as a sequence of one-character strings, so that *)
(* parsing, formatting and splitting are computed and not assumed.         *)
(***************************************************************************)
EXTENDS Integers, Sequences, FiniteSets, TLC

VARIABLES
    \* ---- formula evaluation (evalInfixExp) ----
    tokens,      \* the token stream handed to evalInfixExp
    tokIdx,      \* loop index i (1-based)
    opdStack, optStack, opfStack, opfdStack, opftStack,
    argsList,
    calcPc,      \* "idle" | "loop" | "done" | "panic"
    calcResult,  \* result string of CalcCellValue
    calcErr,     \* error of CalcCellValue (Nil when nil)
    lastCall,    \* the library call made by the last step: [name, args, depth]
    \* ---- a direct call of ARABIC ----
    arText,      \* the text argument
    arResult,    \* the result string
    arErr,       \* the error (Nil when nil)
    arPc,        \* "idle" | "done"
    \* ---- one worksheet of a File and the last call made on it ----
    ws,          \* the xlsxWorksheet: [Row, MergeCells, Cols]
    wsOp,        \* name of the last operation ("" before the first)
    wsArgs,      \* its arguments
    wsRet,       \* the string it returned
    wsErr,       \* the error it returned (Nil when nil)
    wsCount,     \* number of mutating calls made
    wsLastSet,   \* the last SetCellFormula call: its cell, range and formula
    \* ---- the lazy load of that worksheet (workSheetReader) ----
    wsInput,     \* what the file's rows hold, as written by the producer
    wsXML,       \* the worksheet part as decoded from the file
    wsLoaded,    \* f.Sheet[name] != nil
    wsChecked,   \* f.checked[name]
    \* ---- the shared string table of the File ----
    sstPkg,           \* f.Pkg["xl/sharedStrings.xml"], decoded; <<>> if absent
    sstTempFile,      \* the same part kept in a temporary file; <<>> if none
    SharedStrings,    \* f.SharedStrings: <<>> (nil) or <<the xlsxSST>>
    sharedStringsMap, \* f.sharedStringsMap: text -> index
    \* ---- goroutines that call into one File at the same time ----
    thPc,        \* goroutine -> the statement it stands at
    thLocal,     \* goroutine -> its local variables
    shMu,        \* mutex -> the goroutine that holds it ("" when free)
    shMem,       \* the memory the goroutines share
    \* ---- references resolved against the sheets of one File ----
    refSheets,   \* sheet name -> xlsxWorksheet
    refIn,       \* the ends of the reference: a sequence of [sheet, col, row]
    refText,     \* the reference as written in the formula
    refCalls,    \* what each parseReference call returned: [result, err]
    \* ---- a direct call of a library function ----
    libName,     \* the name of the function
    libArgs,     \* the texts of the argument list
    libOut,      \* what the call returned: [result, err, panic]
    libPc,       \* "idle" | "done" | "panic"
    \* ---- the hyperlinks of the worksheet ----
    Hyperlinks, \* ws.Hyperlinks: [held, Hyperlink], the links the part held at load and the links appended
    sheetRels, \* number of relationships of the worksheet part
    \* ---- the auto filter of the worksheet and the calc chain of the File ----
    AutoFilter, \* ws.AutoFilter: <<>> (nil) or <<its Ref>>
    CalcChain, \* f.CalcChain: <<>> (nil) or <<the cell names of its entries>>
    \* ---- the loop of gcd(x, y) on two float64 values ----
    gcdX, \* x: a float64 that holds a whole number, as [h, l] for h * 2^27 + l
    gcdY, \* y, likewise
    gcdPc, \* "idle", "loop" or "done"
    gcdRet, \* the value returned
    \* ---- AddPicture and DeletePicture one after the other ----
    picPkg, \* the "xl/media/image" parts of f.Pkg: number in the name -> bytes
    picRels, \* sheet -> the image relationships of its drawing, [ID, Target]
    picAnchors, \* sheet -> the rIDs of the pictures anchored in the cell, in order
    picOps, \* calls made
    \* ---- the comments part of one sheet ----
    cmts, \* nil (<<>>) or <<[Authors, Comment]>>: the authors and the comment list
    cmtAdded, \* for each stored comment, the author AddComment was called with
    cmtOps \* calls made

calcVars == <<tokens, tokIdx, opdStack, optStack, opfStack, opfdStack,
              opftStack, argsList, calcPc, calcResult, calcErr, lastCall>>

arabicVars == <<arText, arResult, arErr, arPc>>

sheetVars == <<ws, wsOp, wsArgs, wsRet, wsErr, wsCount, wsLastSet>>

loadVars == <<wsInput, wsXML, wsLoaded, wsChecked>>

sstVars == <<sstPkg, sstTempFile, SharedStrings, sharedStringsMap>>

concVars == <<thPc, thLocal, shMu, shMem>>

refVars == <<refSheets, refIn, refText, refCalls>>

libVars == <<libName, libArgs, libOut, libPc>>

linkVars == <<Hyperlinks, sheetRels>>

adjVars == <<AutoFilter, CalcChain>>

gcdVars == <<gcdX, gcdY, gcdPc, gcdRet>>

picVars == <<picPkg, picRels, picAnchors, picOps>>

cmtVars == <<cmts, cmtAdded, cmtOps>>

vars == <<calcVars, arabicVars, sheetVars, loadVars, sstVars, concVars, refVars, libVars, linkVars, adjVars, gcdVars, picVars, cmtVars>>

(***************************************************************************)
(* Bounds of the model.                                                    *)
(***************************************************************************)
MaxOperand == 2
MaxRomanLen == 4
MaxFCol == 2
MaxFRow == 3
MaxSets == 2
MaxLRow == 2
MaxLCol == 2
MaxLoads == 2
MaxFileSI == 1
MaxWrites == 2
MaxACol == 3
MaxARow == 3
MaxMCol == 3
MaxMRow == 3
MaxCellOps == 3
MaxSCol == 2
MaxSRow == 2
MaxStyleOps == 2
MaxSerial == 3
MaxCallers == 3
MaxInserters == 2
MaxRRow == 2
MaxRowOps == 2
MaxRefCol == 2
MaxRefRow == 2
MaxLibArgs == 2
MaxLibNum == 3

(***************************************************************************)
(* Strings and numbers.                                                    *)
(***************************************************************************)
Nil == <<"nil">>

\* no library call made by the step
NoCall == [name |-> <<>>, args |-> <<>>, depth |-> 0]

Digits == <<"0", "1", "2", "3", "4", "5", "6", "7", "8", "9">>

IsDigit(c) == \E k \in 1..10 : Digits[k] = c

DigitVal(c) == (CHOOSE k \in 1..10 : Digits[k] = c) - 1

Abs(n) == IF n < 0 THEN -n ELSE n

RECURSIVE Gcd(_, _)
Gcd(a, b) == IF b = 0 THEN a ELSE Gcd(b, a % b)

\* A float64 is modelled by the exact rational it denotes.
Rat(n, d) ==
    LET g == Gcd(Abs(n), Abs(d))
        s == IF d < 0 THEN -1 ELSE 1
    IN  [n |-> s * (n \div g), d |-> s * (d \div g)]

Num(n) == [n |-> n, d |-> 1]

RatAdd(a, b) == Rat(a.n * b.d + b.n * a.d, a.d * b.d)
RatSub(a, b) == Rat(a.n * b.d - b.n * a.d, a.d * b.d)
RatMul(a, b) == Rat(a.n * b.n, a.d * b.d)
RatDiv(a, b) == Rat(a.n * b.d, a.d * b.n)
RatLess(a, b) == a.n * b.d < b.n * a.d

RECURSIVE NatText(_)
NatText(n) ==
    IF n < 10 THEN <<Digits[n + 1]>>
    ELSE NatText(n \div 10) \o <<Digits[(n % 10) + 1]>>

IntText(n) == IF n < 0 THEN <<"-">> \o NatText(-n) ELSE NatText(n)

\* fmt.Sprintf("%g", x): an integral value prints as its decimal digits; a
\* non-integral value is written n/d here (its exact value) in place of
\* its decimal expansion.
FormatG(q) ==
    IF q.d = 1 THEN IntText(q.n) ELSE IntText(q.n) \o <<"/">> \o NatText(q.d)

RECURSIVE DigitsVal(_, _)
DigitsVal(t, acc) ==
    IF t = <<>> THEN acc ELSE DigitsVal(Tail(t), acc * 10 + DigitVal(Head(t)))

AllDigits(t) == t /= <<>> /\ \A k \in 1..Len(t) : IsDigit(t[k])
\* the text before and after position cut of body, read as sgn * ip/dp
ParseFloatAt(body, cut, sgn) ==
    IF cut > Len(body)
    THEN IF AllDigits(body)
         THEN [ok |-> TRUE, v |-> Num(sgn * DigitsVal(body, 0))]
         ELSE [ok |-> FALSE, v |-> Num(0)]
    ELSE IF /\ AllDigits(SubSeq(body, 1, cut - 1))
            /\ AllDigits(SubSeq(body, cut + 1, Len(body)))
            /\ DigitsVal(SubSeq(body, cut + 1, Len(body)), 0) /= 0
    THEN [ok |-> TRUE,
          v |-> Rat(sgn * DigitsVal(SubSeq(body, 1, cut - 1), 0),
                    DigitsVal(SubSeq(body, cut + 1, Len(body)), 0))]
    ELSE [ok |-> FALSE, v |-> Num(0)]

ParseFloatBody(body, sgn) ==
    ParseFloatAt(body,
                 IF \E k \in 1..Len(body) : body[k] = "/"
                 THEN CHOOSE k \in 1..Len(body) : body[k] = "/"
                 ELSE Len(body) + 1,
                 sgn)

\* strconv.ParseFloat(s, 64): [ok, v]; ok is FALSE for a syntax error.
ParseFloat(t) ==
    IF t /= <<>> /\ Head(t) = "-" THEN ParseFloatBody(Tail(t), -1)
    ELSE ParseFloatBody(t, 1)

formulaErrorDIV == <<"#", "D", "I", "V", "/", "0", "!">>
formulaErrorNAME == <<"#", "N", "A", "M", "E", "?">>
formulaErrorNUM == <<"#", "N", "U", "M", "!">>
formulaErrorVALUE == <<"#", "V", "A", "L", "U", "E", "!">>

\* the error strconv.ParseFloat returns
ErrSyntax == <<"p", "a", "r", "s", "e">>

(***************************************************************************)
(* efp tokens.                                                             *)
(***************************************************************************)
Tok(v, t, s) == [TValue |-> v, TType |-> t, TSubType |-> s]

NumTok(text) == Tok(text, "Operand", "Number")
TextTok(text) == Tok(text, "Operand", "Text")
Infix(op) == Tok(<<op>>, "OperatorInfix", "Math")
Prefix(op) == Tok(<<op>>, "OperatorPrefix", "")
LParen == Tok(<<>>, "Subexpression", "Start")
RParen == Tok(<<>>, "Subexpression", "Stop")
FuncStart(name) == Tok(name, "Function", "Start")
FuncStop == Tok(<<>>, "Function", "Stop")
ArgSep == Tok(<<",">>, "Argument", "")
ZeroTok == Tok(<<>>, "", "")

\* A stack is a sequence whose last element is the top.
Push(s, x) == Append(s, x)
Peek(s) == s[Len(s)]
Pop(s) == SubSeq(s, 1, Len(s) - 1)

(***************************************************************************)
(* Each specification of this module runs one part of the program; the     *)
(* variables of the other parts rest at their idle values.                 *)
(***************************************************************************)
calcIdle ==
    /\ tokens = <<>>
    /\ tokIdx = 1
    /\ opdStack = <<>>
    /\ optStack = <<>>
    /\ opfStack = <<>>
    /\ opfdStack = <<>>
    /\ opftStack = <<>>
    /\ argsList = <<>>
    /\ calcPc = "idle"
    /\ calcResult = <<>>
    /\ calcErr = Nil
    /\ lastCall = NoCall

arabicIdle ==
    /\ arText = <<>>
    /\ arResult = <<>>
    /\ arErr = Nil
    /\ arPc = "idle"

\* a worksheet with no row, no merged cell and no column definition
EmptySheet == [Row |-> <<>>, MergeCells |-> <<>>, Cols |-> <<>>]

NoSet == [shared |-> FALSE, col |-> 0, row |-> 0, toCol |-> 0, toRow |-> 0,
          items |-> <<>>]

sheetIdle ==
    /\ wsLastSet = NoSet
    /\ ws = EmptySheet
    /\ wsOp = ""
    /\ wsArgs = <<>>
    /\ wsRet = <<>>
    /\ wsErr = Nil
    /\ wsCount = 0

\* a new File: the sheet is in memory and needs no load
loadIdle ==
    /\ wsInput = <<>>
    /\ wsXML = EmptySheet
    /\ wsLoaded = TRUE
    /\ wsChecked = TRUE

\* a File with no shared string part
sstIdle ==
    /\ sstPkg = <<>>
    /\ sstTempFile = <<>>
    /\ SharedStrings = <<>>
    /\ sharedStringsMap = <<>>

\* no goroutine besides the caller
concIdle ==
    /\ thPc = <<>>
    /\ thLocal = <<>>
    /\ shMu = <<>>
    /\ shMem = <<>>

\* no reference resolved
refIdle ==
    /\ refSheets = <<>>
    /\ refIn = <<>>
    /\ refText = <<>>
    /\ refCalls = <<>>

\* no library function called
libIdle ==
    /\ libName = <<>>
    /\ libArgs = <<>>
    /\ libOut = <<>>
    /\ libPc = "idle"

linkIdle ==
    /\ Hyperlinks = [held |-> 0, Hyperlink |-> <<>>]
    /\ sheetRels = 0

adjIdle ==
    /\ AutoFilter = <<>>
    /\ CalcChain = <<>>

gcdIdle ==
    /\ gcdX = [h |-> 0, l |-> 0]
    /\ gcdY = [h |-> 0, l |-> 0]
    /\ gcdPc = "idle"
    /\ gcdRet = [h |-> 0, l |-> 0]

picIdle ==
    /\ picPkg = <<>>
    /\ picRels = <<>>
    /\ picAnchors = <<>>
    /\ picOps = 0

cmtIdle ==
    /\ cmts = <<>>
    /\ cmtAdded = <<>>
    /\ cmtOps = 0

OthersIdle(parts) ==
    /\ IF "calc" \in parts THEN TRUE ELSE calcIdle
    /\ IF "arabic" \in parts THEN TRUE ELSE arabicIdle
    /\ IF "sheet" \in parts THEN TRUE ELSE sheetIdle
    /\ IF "load" \in parts THEN TRUE ELSE loadIdle
    /\ IF "sst" \in parts THEN TRUE ELSE sstIdle
    /\ IF "conc" \in parts THEN TRUE ELSE concIdle
    /\ IF "ref" \in parts THEN TRUE ELSE refIdle
    /\ IF "lib" \in parts THEN TRUE ELSE libIdle
    /\ IF "link" \in parts THEN TRUE ELSE linkIdle
    /\ IF "adj" \in parts THEN TRUE ELSE adjIdle
    /\ IF "gcd" \in parts THEN TRUE ELSE gcdIdle
    /\ IF "pic" \in parts THEN TRUE ELSE picIdle
    /\ IF "cmt" \in parts THEN TRUE ELSE cmtIdle

Frame(parts) ==
    /\ IF "calc" \in parts THEN TRUE ELSE UNCHANGED calcVars
    /\ IF "arabic" \in parts THEN TRUE ELSE UNCHANGED arabicVars
    /\ IF "sheet" \in parts THEN TRUE ELSE UNCHANGED sheetVars
    /\ IF "load" \in parts THEN TRUE ELSE UNCHANGED loadVars
    /\ IF "sst" \in parts THEN TRUE ELSE UNCHANGED sstVars
    /\ IF "conc" \in parts THEN TRUE ELSE UNCHANGED concVars
    /\ IF "ref" \in parts THEN TRUE ELSE UNCHANGED refVars
    /\ IF "lib" \in parts THEN TRUE ELSE UNCHANGED libVars
    /\ IF "link" \in parts THEN TRUE ELSE UNCHANGED linkVars
    /\ IF "adj" \in parts THEN TRUE ELSE UNCHANGED adjVars
    /\ IF "gcd" \in parts THEN TRUE ELSE UNCHANGED gcdVars
    /\ IF "pic" \in parts THEN TRUE ELSE UNCHANGED picVars
    /\ IF "cmt" \in parts THEN TRUE ELSE UNCHANGED cmtVars

(***************************************************************************)
(* calculate, getPriority, parseToken.                                     *)
(* An evaluation state is [opd, opt, err, panic]: the two stacks, the      *)
(* error returned (Nil for nil) and whether a nil interface was asserted   *)
(* to efp.Token (Pop or Peek of an empty stack), which panics.             *)
(***************************************************************************)
St(opd, opt, err, panic) == [opd |-> opd, opt |-> opt, err |-> err, panic |-> panic]

Failed(st) == st.panic \/ st.err /= Nil

ApplyOp(op, l, r) ==
    CASE op = "+" -> RatAdd(l, r)
      [] op = "-" -> RatSub(l, r)
      [] op = "*" -> RatMul(l, r)
      [] OTHER    -> IF r.n = 0 THEN Num(0) ELSE RatDiv(l, r)

\* a binary branch of calculate once both operands are popped and parsed
calcBinaryOf(rest, l, r, op) ==
    IF ~l.ok \/ ~r.ok
    THEN [opd |-> rest, err |-> ErrSyntax, panic |-> FALSE]
    ELSE IF op = "/" /\ r.v.n = 0
    THEN [opd |-> rest, err |-> formulaErrorDIV, panic |-> FALSE]
    ELSE [opd |-> Push(rest, NumTok(FormatG(ApplyOp(op, l.v, r.v)))),
          err |-> Nil, panic |-> FALSE]

\* the four binary branches of calculate
calcBinary(opd, op) ==
    IF Len(opd) < 2 THEN [opd |-> <<>>, err |-> Nil, panic |-> TRUE]
    ELSE calcBinaryOf(Pop(Pop(opd)), ParseFloat(Peek(Pop(opd)).TValue),
                      ParseFloat(Peek(opd).TValue), op)

\* the prefix "-" branch of calculate once the operand is parsed
calcNegateOf(rest, v) ==
    IF ~v.ok
    THEN [opd |-> rest, err |-> ErrSyntax, panic |-> FALSE]
    ELSE [opd |-> Push(rest, NumTok(FormatG(RatSub(Num(0), v.v)))),
          err |-> Nil, panic |-> FALSE]

calculate(opd, opt) ==
    IF opt.TValue = <<"-">> /\ opt.TType = "OperatorPrefix"
    THEN IF Len(opd) < 1 THEN [opd |-> <<>>, err |-> Nil, panic |-> TRUE]
         ELSE calcNegateOf(Pop(opd), ParseFloat(Peek(opd).TValue))
    ELSE IF \/ opt.TValue \in {<<"+">>, <<"*">>, <<"/">>}
            \/ (opt.TValue = <<"-">> /\ opt.TType = "OperatorInfix")
    THEN calcBinary(opd, opt.TValue[1])
    ELSE [opd |-> opd, err |-> Nil, panic |-> FALSE]

\* a priority table without precedence: every binary operator has priority 1
getPriorityFlat(token) ==
    IF token.TSubType = "Start" /\ token.TType = "Subexpression" THEN 0
    ELSE IF token.TValue = <<"-">> /\ token.TType = "OperatorPrefix" THEN 3
    ELSE IF token.TValue \in {<<"+">>, <<"-">>, <<"*">>, <<"/">>} THEN 1
    ELSE 0

getPriority(token) ==
    IF token.TSubType = "Start" /\ token.TType = "Subexpression" THEN 0
    ELSE IF token.TValue = <<"-">> /\ token.TType = "OperatorPrefix" THEN 3
    ELSE IF token.TValue \in {<<"*">>, <<"/">>} THEN 2
    ELSE IF token.TValue \in {<<"+">>, <<"-">>} THEN 1
    ELSE 0

IsOperator(token) ==
    \/ (token.TValue = <<"-">> /\ token.TType = "OperatorPrefix")
    \/ token.TValue \in {<<"+">>, <<"-">>, <<"*">>, <<"/">>}

RECURSIVE reduceLoop(_, _, _)

\* one iteration of that loop after calculate has returned c
reduceStep(c, opt, tokenPriority) ==
    IF c.panic \/ c.err /= Nil
    THEN St(c.opd, Pop(opt), c.err, c.panic)
    ELSE IF Len(Pop(opt)) > 0
    THEN reduceLoop(c.opd, Pop(opt), tokenPriority)
    ELSE St(c.opd, Pop(opt), Nil, FALSE)

\* the loop "for tokenPriority <= topOptPriority" of parseToken; topOpt has
\* been read and is still on optStack when an iteration starts
reduceLoop(opd, opt, tokenPriority) ==
    IF tokenPriority <= getPriority(Peek(opt))
    THEN reduceStep(calculate(opd, Peek(opt)), opt, tokenPriority)
    ELSE St(opd, opt, Nil, FALSE)

\* "optStack.Push(token)" after the loop
parseOperatorPush(token, r) ==
    IF Failed(r) THEN r ELSE St(r.opd, Push(r.opt, token), Nil, FALSE)

\* the operator branch of parseToken
parseOperator(token, opd, opt) ==
    IF ~IsOperator(token) THEN St(opd, opt, Nil, FALSE)
    ELSE IF Len(opt) = 0 THEN St(opd, Push(opt, token), Nil, FALSE)
    ELSE IF getPriority(token) > getPriority(Peek(opt))
    THEN St(opd, Push(opt, token), Nil, FALSE)
    ELSE parseOperatorPush(token, reduceLoop(opd, opt, getPriority(token)))

RECURSIVE closeLoop(_, _)

closeStep(c, opt) ==
    IF c.panic \/ c.err /= Nil
    THEN St(c.opd, opt, c.err, c.panic)
    ELSE closeLoop(c.opd, Pop(opt))

\* the loop of the ")" branch: reduce until the "(" marker is on top
closeLoop(opd, opt) ==
    IF Len(opt) = 0 THEN St(opd, opt, Nil, TRUE)
    ELSE IF Peek(opt).TSubType /= "Start" /\ Peek(opt).TType /= "Subexpression"
    THEN closeStep(calculate(opd, Peek(opt)), opt)
    ELSE St(opd, Pop(opt), Nil, FALSE)

\* the "(" branch of parseToken
parseSubStart(token, s) ==
    IF Failed(s) THEN s
    ELSE IF token.TType = "Subexpression" /\ token.TSubType = "Start"
    THEN St(s.opd, Push(s.opt, token), Nil, FALSE)
    ELSE s

\* the ")" branch of parseToken
parseSubStop(token, s) ==
    IF Failed(s) THEN s
    ELSE IF token.TType = "Subexpression" /\ token.TSubType = "Stop"
    THEN closeLoop(s.opd, s.opt)
    ELSE s

\* the operand branch of parseToken
parseOperand(token, s) ==
    IF Failed(s) THEN s
    ELSE IF token.TType = "Operand" /\ token.TSubType = "Number"
    THEN St(Push(s.opd, token), s.opt, Nil, FALSE)
    ELSE s

\* parseToken for a token that is not a range
parseToken(token, opd, opt) ==
    parseOperand(token,
        parseSubStop(token,
            parseSubStart(token, parseOperator(token, opd, opt))))

RECURSIVE drain(_, _)

drainStep(c, opt) ==
    IF c.panic \/ c.err /= Nil
    THEN St(c.opd, opt, c.err, c.panic)
    ELSE drain(c.opd, Pop(opt))

\* "for !optStack.Empty() { calculate(opdStack, Peek); Pop }"
drain(opd, opt) ==
    IF Len(opt) = 0 THEN St(opd, opt, Nil, FALSE)
    ELSE drainStep(calculate(opd, Peek(opt)), opt)

(***************************************************************************)
(* The function library (formulaFuncs).  A call returns [result, err,      *)
(* panic]; its argument list is a sequence of tokens.                      *)
(***************************************************************************)
Ret(result, err) == [result |-> result, err |-> err, panic |-> FALSE]

ErrArity == <<"a", "r", "i", "t", "y">>
ErrNotSupported == <<"n", "o", "t", " ", "s", "u", "p", "p", "o", "r", "t">>

\* math.Sqrt on the squares of rationals (the arguments the model passes)
IntSqrt(n) == CHOOSE r \in 0..n : r * r = n

fnABS(args) ==
    IF Len(args) /= 1 THEN Ret(<<>>, ErrArity)
    ELSE LET v == ParseFloat(args[1].TValue)
         IN  IF ~v.ok THEN Ret(<<>>, ErrSyntax)
             ELSE Ret(FormatG(Rat(Abs(v.v.n), v.v.d)), Nil)

romanDigit(char) ==
    CASE char = "I" -> 1
      [] char = "V" -> 5
      [] char = "X" -> 10
      [] char = "L" -> 50
      [] char = "C" -> 100
      [] char = "D" -> 500
      [] char = "M" -> 1000
      [] OTHER      -> 0

\* the loop of ARABIC over the characters of its argument
RECURSIVE arabicLoop(_, _, _, _)
\* the loop without the case "2*last == digit"
arabicLoopNoDouble(chars, val, last, prefix) ==
    IF chars = <<>> THEN Ret(FormatG(Num(prefix * val)), Nil)
    ELSE IF Head(chars) = "-" THEN arabicLoop(Tail(chars), val, last, -1)
    ELSE IF last = romanDigit(Head(chars)) /\ (last = 5 \/ last = 50 \/ last = 500)
    THEN Ret(formulaErrorVALUE, Nil)
    ELSE arabicLoop(Tail(chars),
                    IF last < romanDigit(Head(chars))
                    THEN val + romanDigit(Head(chars)) - 2 * last
                    ELSE val + romanDigit(Head(chars)),
                    romanDigit(Head(chars)), prefix)

arabicLoop(chars, val, last, prefix) ==
    IF chars = <<>> THEN Ret(FormatG(Num(prefix * val)), Nil)
    ELSE IF Head(chars) = "-" THEN arabicLoop(Tail(chars), val, last, -1)
    ELSE LET digit == romanDigit(Head(chars))
             val1  == val + digit
         IN  IF last = digit /\ (last = 5 \/ last = 50 \/ last = 500)
             THEN Ret(formulaErrorVALUE, Nil)
             ELSE IF 2 * last = digit
             THEN Ret(formulaErrorVALUE, Nil)
             ELSE arabicLoop(Tail(chars),
                             IF last < digit THEN val1 - 2 * last ELSE val1,
                             digit, prefix)

fnARABIC(args) ==
    IF Len(args) /= 1 THEN Ret(<<>>, ErrArity)
    ELSE arabicLoop(args[1].TValue, 0, 0, 1)

fnSQRT(args) ==
    IF Len(args) /= 1 THEN Ret(<<>>, ErrArity)
    ELSE LET v == ParseFloat(args[1].TValue)
         IN  IF ~v.ok THEN Ret(<<>>, ErrSyntax)
             ELSE IF v.v.n < 0 THEN Ret(<<>>, formulaErrorNUM)
             ELSE Ret(FormatG(Rat(IntSqrt(v.v.n), IntSqrt(v.v.d))), Nil)

fnSIGN(args) ==
    IF Len(args) /= 1 THEN Ret(<<>>, ErrArity)
    ELSE LET v == ParseFloat(args[1].TValue)
         IN  IF ~v.ok THEN Ret(<<>>, ErrSyntax)
             ELSE IF v.v.n < 0 THEN Ret(<<"-", "1">>, Nil)
             ELSE IF v.v.n > 0 THEN Ret(<<"1">>, Nil)
             ELSE Ret(<<"0">>, Nil)

RECURSIVE sumLoop(_, _)
sumLoop(args, sum) ==
    IF args = <<>> THEN Ret(FormatG(sum), Nil)
    ELSE IF Head(args).TValue = <<>> THEN sumLoop(Tail(args), sum)
    ELSE LET v == ParseFloat(Head(args).TValue)
         IN  IF ~v.ok THEN Ret(<<>>, ErrSyntax)
             ELSE sumLoop(Tail(args), RatAdd(sum, v.v))

fnSUM(args) == sumLoop(args, Num(0))

RECURSIVE productLoop(_, _)
productLoop(args, product) ==
    IF args = <<>> THEN Ret(FormatG(product), Nil)
    ELSE IF Head(args).TValue = <<>> THEN productLoop(Tail(args), product)
    ELSE LET v == ParseFloat(Head(args).TValue)
         IN  IF ~v.ok THEN Ret(<<>>, ErrSyntax)
             ELSE productLoop(Tail(args), RatMul(product, v.v))

fnPRODUCT(args) == productLoop(args, Num(1))

ErrOnlyPositive == <<"p", "o", "s", "i", "t", "i", "v", "e">>

\* math.Trunc
Trunc(q) == IF q.n >= 0 THEN q.n \div q.d ELSE -((-q.n) \div q.d)

RECURSIVE gcdLoop(_, _)
gcdLoop(x, y) ==
    IF x = y THEN x
    ELSE IF x > y THEN gcdLoop(x - y, y)
    ELSE gcdLoop(x, y - x)

gcd(x, y) ==
    IF Trunc(x) = 0 THEN Num(Trunc(y))
    ELSE IF Trunc(y) = 0 THEN Num(Trunc(x))
    ELSE Num(gcdLoop(Trunc(x), Trunc(y)))

lcm(a, b) ==
    IF Trunc(a) = 0 /\ Trunc(b) = 0 THEN Num(0)
    ELSE RatDiv(Num(Trunc(a) * Trunc(b)), gcd(a, b))

\* the first loop of GCD and LCM: the arguments that are not empty,
\* parsed: [nums, err]
RECURSIVE collectNums(_, _)
collectNums(args, nums) ==
    IF args = <<>> THEN [nums |-> nums, err |-> Nil]
    ELSE IF Head(args).TValue = <<>> THEN collectNums(Tail(args), nums)
    ELSE IF ~ParseFloat(Head(args).TValue).ok THEN [nums |-> nums, err |-> ErrSyntax]
    ELSE collectNums(Tail(args), Append(nums, ParseFloat(Head(args).TValue).v))

\* nums[0] of a slice with no element: index out of range
IndexOutOfRange == [result |-> <<>>, err |-> Nil, panic |-> TRUE]

RECURSIVE gcdFold(_, _, _)
gcdFold(nums, i, cd) ==
    IF i > Len(nums) THEN Ret(FormatG(cd), Nil)
    ELSE IF nums[i].n < 0 THEN Ret(<<>>, ErrOnlyPositive)
    ELSE gcdFold(nums, i + 1, gcd(cd, nums[i]))

gcdOf(c) ==
    IF c.err /= Nil THEN Ret(<<>>, c.err)
    ELSE IF c.nums = <<>> THEN IndexOutOfRange
    ELSE IF c.nums[1].n < 0 THEN Ret(<<>>, ErrOnlyPositive)
    ELSE IF Len(c.nums) = 1 THEN Ret(FormatG(c.nums[1]), Nil)
    ELSE gcdFold(c.nums, 2, c.nums[1])

fnGCD(args) ==
    IF Len(args) = 0 THEN Ret(<<>>, ErrArity)
    ELSE gcdOf(collectNums(args, <<>>))

RECURSIVE lcmFold(_, _, _)
lcmFold(nums, i, cm) ==
    IF i > Len(nums) THEN Ret(FormatG(cm), Nil)
    ELSE IF nums[i].n < 0 THEN Ret(<<>>, ErrOnlyPositive)
    ELSE lcmFold(nums, i + 1, lcm(cm, nums[i]))

lcmOf(c) ==
    IF c.err /= Nil THEN Ret(<<>>, c.err)
    ELSE IF c.nums = <<>> THEN IndexOutOfRange
    ELSE IF c.nums[1].n < 0 THEN Ret(<<>>, ErrOnlyPositive)
    ELSE IF Len(c.nums) = 1 THEN Ret(FormatG(c.nums[1]), Nil)
    ELSE lcmFold(c.nums, 2, c.nums[1])

fnLCM(args) ==
    IF Len(args) = 0 THEN Ret(<<>>, ErrArity)
    ELSE lcmOf(collectNums(args, <<>>))

\* callFuncByName: the method of formulaFuncs with the given name
callFuncByName(name, args) ==
    CASE name = <<"A", "B", "S">> -> fnABS(args)
      [] name = <<"A", "R", "A", "B", "I", "C">> -> fnARABIC(args)
      [] name = <<"S", "Q", "R", "T">> -> fnSQRT(args)
      [] name = <<"S", "I", "G", "N">> -> fnSIGN(args)
      [] name = <<"S", "U", "M">> -> fnSUM(args)
      [] name = <<"P", "R", "O", "D", "U", "C", "T">> -> fnPRODUCT(args)
      [] name = <<"G", "C", "D">> -> fnGCD(args)
      [] name = <<"L", "C", "M">> -> fnLCM(args)
      [] OTHER -> Ret(<<>>, ErrNotSupported)

(***************************************************************************)
(* evalInfixExp: one step per token of the stream, then the final drain.   *)
(***************************************************************************)
xlfn == <<"_", "x", "l", "f", "n">>

\* strings.NewReplacer("_xlfn", "", ".", "").Replace(name)
RECURSIVE stripName(_)
stripName(name) ==
    IF name = <<>> THEN <<>>
    ELSE IF Len(name) >= 5 /\ SubSeq(name, 1, 5) = xlfn
         THEN stripName(SubSeq(name, 6, Len(name)))
    ELSE IF Head(name) = "." THEN stripName(Tail(name))
    ELSE <<Head(name)>> \o stripName(Tail(name))

Ev(opd, opt, opf, opfd, opft, args, err, panic, call) ==
    [opd |-> opd, opt |-> opt, opf |-> opf, opfd |-> opfd, opft |-> opft,
     args |-> args, err |-> err, panic |-> panic, call |-> call]

ResultTok(text) == Tok(text, "Operand", "Number")

\* the call of the function and the push of its result
funcStopReturn(e, d, args1, opfd1, call, r) ==
    IF r.panic \/ r.err /= Nil
    THEN Ev(e.opd, e.opt, e.opf, opfd1, d.opt, args1, r.err, r.panic, call)
    ELSE IF Len(Pop(e.opf)) > 0
    THEN Ev(e.opd, e.opt, Pop(e.opf), Push(opfd1, ResultTok(r.result)), d.opt,
            <<>>, Nil, FALSE, call)
    ELSE Ev(Push(e.opd, ResultTok(r.result)), e.opt, Pop(e.opf), opfd1, d.opt,
            <<>>, Nil, FALSE, call)

funcStopCall(e, d, args1, opfd1, name) ==
    funcStopReturn(e, d, args1, opfd1,
                   [name |-> name, args |-> args1, depth |-> Len(e.opf)],
                   callFuncByName(name, args1))

\* after the drain of opftStack: "push opfd to args", then the call
funcStopArgs(e, d) ==
    IF Failed(d)
    THEN Ev(e.opd, e.opt, e.opf, d.opd, d.opt, e.args, d.err, d.panic, NoCall)
    ELSE funcStopCall(e, d,
                      IF Len(d.opd) > 0 THEN Append(e.args, Peek(d.opd)) ELSE e.args,
                      IF Len(d.opd) > 0 THEN Pop(d.opd) ELSE d.opd,
                      stripName(Peek(e.opf).TValue))

\* the "current token is function stop" branch
funcStop(e) == funcStopArgs(e, drain(e.opfd, e.opft))

\* the "current token is args or function" branch after its drain
inFunctionArg(e, d) ==
    IF Failed(d)
    THEN Ev(e.opd, e.opt, e.opf, d.opd, d.opt, e.args, d.err, d.panic, NoCall)
    ELSE IF Len(d.opd) > 0
    THEN Ev(e.opd, e.opt, e.opf, Pop(d.opd), d.opt,
            Append(e.args, Peek(d.opd)), Nil, FALSE, NoCall)
    ELSE Ev(e.opd, e.opt, e.opf, d.opd, d.opt, e.args, Nil, FALSE, NoCall)

\* "current token is text" and "current token is function stop"
inFunctionText(token, e) ==
    IF token.TType = "Function" /\ token.TSubType = "Stop" THEN funcStop(e) ELSE e

\* the "in function stack" part after parseToken has returned p
inFunctionParsed(token, e, p) ==
    IF Failed(p)
    THEN Ev(e.opd, e.opt, e.opf, p.opd, p.opt, e.args, p.err, p.panic, NoCall)
    ELSE IF token.TType = "Argument"
    THEN inFunctionArg(e, drain(p.opd, p.opt))
    ELSE inFunctionText(token,
            Ev(e.opd, e.opt, e.opf, p.opd, p.opt,
               IF token.TType = "Operand" /\ token.TSubType = "Text"
               THEN Append(e.args, token) ELSE e.args,
               Nil, FALSE, NoCall))

\* the "in function stack" part of the loop body, for a token that is not a
\* range
inFunction(token, e) == inFunctionParsed(token, e, parseToken(token, e.opfd, e.opft))

\* the loop body after the "out of function stack" parseToken has returned p
evalTokenParsed(token, e, p) ==
    IF Failed(p)
    THEN Ev(p.opd, p.opt, e.opf, e.opfd, e.opft, e.args, p.err, p.panic, NoCall)
    ELSE IF token.TType = "Function" /\ token.TSubType = "Start"
    THEN Ev(p.opd, p.opt, Push(e.opf, token), e.opfd, e.opft, e.args,
            Nil, FALSE, NoCall)
    ELSE IF Len(e.opf) > 0
    THEN inFunction(token, Ev(p.opd, p.opt, e.opf, e.opfd, e.opft, e.args,
                              Nil, FALSE, NoCall))
    ELSE Ev(p.opd, p.opt, e.opf, e.opfd, e.opft, e.args, Nil, FALSE, NoCall)

\* the body of the loop of evalInfixExp for one token
evalToken(token, e) ==
    evalTokenParsed(token, e,
                    IF Len(e.opf) = 0 THEN parseToken(token, e.opd, e.opt)
                    ELSE St(e.opd, e.opt, Nil, FALSE))

CurEv == Ev(opdStack, optStack, opfStack, opfdStack, opftStack, argsList,
            Nil, FALSE, NoCall)

\* CalcCellValue up to the call of evalInfixExp: "if tokens == nil { return }"
CalcCellValue ==
    /\ calcPc = "idle"
    /\ calcPc' = IF tokens = <<>> THEN "done" ELSE "loop"
    /\ UNCHANGED <<tokens, tokIdx, opdStack, optStack, opfStack, opfdStack,
                   opftStack, argsList, calcResult, calcErr, lastCall>>
    /\ Frame({"calc"})

\* one iteration of "for i := 0; i < len(tokens); i++"
EvalToken ==
    /\ calcPc = "loop"
    /\ tokIdx <= Len(tokens)
    /\ \E e \in {evalToken(tokens[tokIdx], CurEv)} :
           /\ opdStack' = e.opd
           /\ optStack' = e.opt
           /\ opfStack' = e.opf
           /\ opfdStack' = e.opfd
           /\ opftStack' = e.opft
           /\ argsList' = e.args
           /\ lastCall' = e.call
           /\ calcPc' = IF e.panic THEN "panic" ELSE IF e.err /= Nil THEN "done" ELSE "loop"
           /\ calcErr' = e.err
    /\ tokIdx' = tokIdx + 1
    /\ UNCHANGED <<tokens, calcResult>>
    /\ Frame({"calc"})

\* after the loop: drain optStack and return opdStack.Peek()
EvalFinish ==
    /\ calcPc = "loop"
    /\ tokIdx > Len(tokens)
    /\ \E d \in {drain(opdStack, optStack)} :
           /\ opdStack' = d.opd
           /\ optStack' = d.opt
           /\ calcErr' = d.err
           /\ calcPc' = IF d.panic \/ (d.err = Nil /\ Len(d.opd) = 0) THEN "panic" ELSE "done"
           /\ calcResult' = IF ~Failed(d) /\ Len(d.opd) > 0 THEN Peek(d.opd).TValue ELSE <<>>
    /\ UNCHANGED <<tokens, tokIdx, opfStack, opfdStack, opftStack, argsList, lastCall>>
    /\ Frame({"calc"})

(***************************************************************************)
(* The formulas evaluated: the token streams the tokenizer yields for      *)
(* arithmetic over 0..MaxOperand and for a sample of function calls.       *)
(***************************************************************************)
Operands ==
    {<<NumTok(NatText(n))>> : n \in 0..MaxOperand}
      \cup {<<Prefix("-"), NumTok(NatText(n))>> : n \in 0..MaxOperand}

InfixOps == {Infix("+"), Infix("-"), Infix("*"), Infix("/")}

ArithFormulas ==
    Operands
      \cup {a \o <<o>> \o b : a \in Operands, o \in InfixOps, b \in Operands}
      \cup {a \o <<o1>> \o b \o <<o2>> \o c :
              a \in Operands, o1 \in InfixOps, b \in Operands,
              o2 \in InfixOps, c \in {<<NumTok(NatText(n))>> : n \in 0..MaxOperand}}
      \cup {<<LParen>> \o a \o <<o1>> \o b \o <<RParen, o2>> \o c :
              a \in {<<NumTok(NatText(n))>> : n \in 0..MaxOperand},
              o1 \in InfixOps, b \in Operands,
              o2 \in InfixOps, c \in {<<NumTok(NatText(n))>> : n \in 0..MaxOperand}}
      \cup {a \o <<o1, LParen>> \o b \o <<o2>> \o c \o <<RParen>> :
              a \in {<<NumTok(NatText(n))>> : n \in 0..MaxOperand},
              o1 \in InfixOps, b \in Operands,
              o2 \in {Infix("+"), Infix("-"), Infix("*")},
              c \in {<<NumTok(NatText(n))>> : n \in 0..MaxOperand}}

nSQRT == <<"S", "Q", "R", "T">>
nSUM == <<"S", "U", "M">>
nARABIC == <<"A", "R", "A", "B", "I", "C">>
nABS == <<"A", "B", "S">>
nSIGN == <<"S", "I", "G", "N">>
nPRODUCT == <<"P", "R", "O", "D", "U", "C", "T">>

N1 == NumTok(<<"1">>)
N2 == NumTok(<<"2">>)
N3 == NumTok(<<"3">>)
N4 == NumTok(<<"4">>)

FOneDivZero == <<N1, Infix("/"), NumTok(<<"0">>)>>
FSqrtMinusOne == <<FuncStart(nSQRT), Prefix("-"), N1, FuncStop>>
FOnePlusTwoTimesThree == <<N1, Infix("+"), N2, Infix("*"), N3>>

FuncFormulas ==
    { FSqrtMinusOne,
      FOnePlusTwoTimesThree,
      <<FuncStart(nSQRT), N4, FuncStop>>,
      <<FuncStart(nSQRT), N4, FuncStop, Infix("+"), N1>>,
      <<N1, Infix("+"), FuncStart(nSQRT), N4, FuncStop, Infix("*"), N3>>,
      <<FuncStart(nSQRT), N1, Infix("/"), NumTok(<<"0">>), FuncStop>>,
      <<FuncStart(nSQRT), N1, ArgSep, N1, FuncStop>>,
      <<FuncStart(nSUM), N1, ArgSep, N2, FuncStop>>,
      <<FuncStart(nSUM), N1, Infix("+"), N2, ArgSep, N3, FuncStop>>,
      <<FuncStart(nSUM), FuncStart(nSQRT), N4, FuncStop, ArgSep, N3, FuncStop>>,
      <<FuncStart(nSUM), N1, ArgSep, FuncStart(nSQRT), Prefix("-"), N1, FuncStop, FuncStop>>,
      <<FuncStart(nPRODUCT), N2, ArgSep, N3, FuncStop>>,
      <<FuncStart(nABS), Prefix("-"), N2, FuncStop>>,
      <<FuncStart(nSIGN), Prefix("-"), N2, FuncStop>>,
      <<FuncStart(nARABIC), TextTok(<<"I", "V">>), FuncStop>>,
      <<FuncStart(nARABIC), TextTok(<<"I", "I", "I", "I">>), FuncStop>>,
      <<FuncStart(nSQRT), TextTok(<<"I", "V">>), FuncStop>>,
      <<FuncStart(<<"N", "O", "P", "E">>), N1, FuncStop>>,
      <<>> }

Formulas == ArithFormulas \cup FuncFormulas

InitCalc ==
    /\ tokens \in Formulas
    /\ tokIdx = 1
    /\ opdStack = <<>>
    /\ optStack = <<>>
    /\ opfStack = <<>>
    /\ opfdStack = <<>>
    /\ opftStack = <<>>
    /\ argsList = <<>>
    /\ calcPc = "idle"
    /\ calcResult = <<>>
    /\ calcErr = Nil
    /\ lastCall = NoCall
    /\ OthersIdle({"calc"})

NextCalc == CalcCellValue \/ EvalToken \/ EvalFinish

SpecCalc == InitCalc /\ [][NextCalc]_vars

(***************************************************************************)
(* The value of an arithmetic token stream under the usual precedence:     *)
(* an expression is a sum or difference of terms, a term a product or      *)
(* quotient of unary expressions, a unary expression a negated unary       *)
(* expression, a number or a parenthesised expression.  [v, p, err]: the   *)
(* value, the position after it, whether a division by zero was met.       *)
(***************************************************************************)
RECURSIVE RefExpr(_, _), RefExprTail(_, _, _), RefTerm(_, _), RefTermTail(_, _, _), RefUnary(_, _)

RV(v, p, err) == [v |-> v, p |-> p, err |-> err]

RefUnary(ts, p) ==
    IF ts[p] = Prefix("-")
    THEN LET u == RefUnary(ts, p + 1) IN RV(RatSub(Num(0), u.v), u.p, u.err)
    ELSE IF ts[p] = LParen
    THEN LET e == RefExpr(ts, p + 1) IN RV(e.v, e.p + 1, e.err)
    ELSE RV(ParseFloat(ts[p].TValue).v, p + 1, FALSE)

RefTermTail(ts, p, acc) ==
    IF p <= Len(ts) /\ ts[p] \in {Infix("*"), Infix("/")}
    THEN LET u == RefUnary(ts, p + 1)
         IN  IF acc.err \/ u.err \/ (ts[p] = Infix("/") /\ u.v.n = 0)
             THEN RefTermTail(ts, u.p, RV(Num(0), u.p, TRUE))
             ELSE RefTermTail(ts, u.p,
                     RV(IF ts[p] = Infix("*") THEN RatMul(acc.v, u.v) ELSE RatDiv(acc.v, u.v),
                        u.p, FALSE))
    ELSE RV(acc.v, p, acc.err)

RefTerm(ts, p) == LET u == RefUnary(ts, p) IN RefTermTail(ts, u.p, u)

RefExprTail(ts, p, acc) ==
    IF p <= Len(ts) /\ ts[p] \in {Infix("+"), Infix("-")}
    THEN LET t == RefTerm(ts, p + 1)
         IN  IF acc.err \/ t.err
             THEN RefExprTail(ts, t.p, RV(Num(0), t.p, TRUE))
             ELSE RefExprTail(ts, t.p,
                     RV(IF ts[p] = Infix("+") THEN RatAdd(acc.v, t.v) ELSE RatSub(acc.v, t.v),
                        t.p, FALSE))
    ELSE RV(acc.v, p, acc.err)

RefExpr(ts, p) == LET t == RefTerm(ts, p) IN RefExprTail(ts, t.p, t)

\* C1: every arithmetic formula evaluates to its value under the usual
\* operator precedence (prefix negation over * and / over + and -), a
\* division by zero giving the error #DIV/0!; "=1+2*3" yields "7".
C1_Precedence ==
    (calcPc = "done" /\ tokens \in ArithFormulas \cup {FOnePlusTwoTimesThree}) =>
        LET r == RefExpr(tokens, 1)
        IN  /\ r.err => (calcErr = formulaErrorDIV)
            /\ ~r.err => (calcErr = Nil /\ calcResult = FormatG(r.v))
            /\ (tokens = FOnePlusTwoTimesThree) => (calcResult = <<"7">>)

C1_Witness ==
    calcPc = "done" /\ tokens = FOnePlusTwoTimesThree /\ calcResult = <<"7">>

\* C2: a spreadsheet error raised during evaluation is the result value of
\* the evaluation and also its error: "=1/0" yields #DIV/0! and "=SQRT(-1)"
\* yields #NUM!, each both as result and as error.
C2_ErrorIsResult ==
    /\ (calcPc = "done" /\ tokens = FOneDivZero) =>
           (calcResult = formulaErrorDIV /\ calcErr = formulaErrorDIV)
    /\ (calcPc = "done" /\ tokens = FSqrtMinusOne) =>
           (calcResult = formulaErrorNUM /\ calcErr = formulaErrorNUM)

(***************************************************************************)
(* ARABIC called on every text of at most MaxRomanLen Roman digits.        *)
(***************************************************************************)
RomanDigits == {"I", "V", "X", "L", "C", "D", "M"}

RomanTexts == UNION {[1..n -> RomanDigits] : n \in 0..MaxRomanLen}

InitArabic ==
    /\ arText \in RomanTexts
    /\ arResult = <<>>
    /\ arErr = Nil
    /\ arPc = "idle"
    /\ OthersIdle({"arabic"})

\* formulaFuncs.ARABIC on an argument list holding the one text
Arabic ==
    /\ arPc = "idle"
    /\ \E r \in {fnARABIC(<<TextTok(arText)>>)} :
           /\ arResult' = r.result
           /\ arErr' = r.err
    /\ arPc' = "done"
    /\ UNCHANGED arText
    /\ Frame({"arabic"})

NextArabic == Arabic

SpecArabic == InitArabic /\ [][NextArabic]_vars

\* a digit worth 5, 50 or 500 directly after itself, or a digit worth exactly
\* twice the digit before it
InvalidPair(t) ==
    \E i \in 1..(Len(t) - 1) :
        \/ (t[i] = t[i + 1] /\ t[i] \in {"V", "L", "D"})
        \/ (t[i] = "V" /\ t[i + 1] = "X")
        \/ (t[i] = "L" /\ t[i + 1] = "C")
        \/ (t[i] = "D" /\ t[i + 1] = "M")

\* C3 (as the code has it): ARABIC returns #VALUE!, with no error, exactly
\* for a text of Roman digits in which V, L or D directly follows itself or
\* a digit is worth exactly twice the digit before it; a repeated I is
\* accepted, so ARABIC("IIII") returns 4, as does ARABIC("IV").
C3_ArabicRule ==
    (arPc = "done") =>
        /\ arErr = Nil
        /\ (arResult = formulaErrorVALUE) <=> InvalidPair(arText)
        /\ (arText = <<"I", "V">>) => (arResult = <<"4">>)
        /\ (arText = <<"I", "I", "I", "I">>) => (arResult = <<"4">>)

C3_Witness ==
    arPc = "done" /\ arText = <<"V", "X">> /\ arResult = formulaErrorVALUE

\* C3 (as claimed): ARABIC("IIII") returns #VALUE! while ARABIC("IV")
\* returns 4.
C3_Claimed ==
    (arPc = "done") =>
        /\ (arText = <<"I", "I", "I", "I">>) => (arResult = formulaErrorVALUE)
        /\ (arText = <<"I", "V">>) => (arResult = <<"4">>)

(***************************************************************************)
(* The coordinate system: cell names, column names, area references.       *)
(***************************************************************************)
Letters == <<"A", "B", "C", "D", "E", "F", "G", "H", "I", "J", "K", "L", "M",
             "N", "O", "P", "Q", "R", "S", "T", "U", "V", "W", "X", "Y", "Z">>

LowerLetters == <<"a", "b", "c", "d", "e", "f", "g", "h", "i", "j", "k", "l", "m",
                  "n", "o", "p", "q", "r", "s", "t", "u", "v", "w", "x", "y", "z">>

IsUpper(c) == \E k \in 1..26 : Letters[k] = c

LetterVal(c) == CHOOSE k \in 1..26 : Letters[k] = c

\* strings.ToUpper
ToUpper(t) ==
    [k \in 1..Len(t) |->
        IF \E j \in 1..26 : LowerLetters[j] = t[k]
        THEN Letters[CHOOSE j \in 1..26 : LowerLetters[j] = t[k]]
        ELSE t[k]]

\* strings.ReplaceAll(t, ch, "")
Without(t, ch) == SelectSeq(t, LAMBDA c : c /= ch)

\* strings.Split(t, sep) for a one-character separator
RECURSIVE SplitFrom(_, _, _)
SplitFrom(t, sep, cur) ==
    IF t = <<>> THEN <<cur>>
    ELSE IF Head(t) = sep THEN <<cur>> \o SplitFrom(Tail(t), sep, <<>>)
    ELSE SplitFrom(Tail(t), sep, Append(cur, Head(t)))

Split(t, sep) == SplitFrom(t, sep, <<>>)

\* Go's TotalColumns, the largest column number of a worksheet
TotalColumns == 16384

RECURSIVE ColumnNameToNumberFrom(_, _)
ColumnNameToNumberFrom(name, acc) ==
    IF name = <<>> THEN acc
    ELSE ColumnNameToNumberFrom(Tail(name), acc * 26 + LetterVal(Head(name)))

ColumnNameToNumber(name) == ColumnNameToNumberFrom(name, 0)

RECURSIVE ColumnNumberToName(_)
ColumnNumberToName(num) ==
    IF num < 1 \/ num > TotalColumns THEN <<>>
    ELSE IF num <= 26 THEN <<Letters[num]>>
    ELSE ColumnNumberToName((num - 1) \div 26) \o <<Letters[((num - 1) % 26) + 1]>>

BadCoordinates == [col |-> -1, row |-> -1, ok |-> FALSE]

\* the column letters and the row digits of a cell name, as numbers
CoordinatesOf(colName, rowText) ==
    IF \/ colName = <<>>
       \/ \E k \in 1..Len(colName) : ~IsUpper(colName[k])
       \/ ~AllDigits(rowText)
    THEN BadCoordinates
    ELSE IF DigitsVal(rowText, 0) < 1 \/ ColumnNameToNumber(colName) > TotalColumns
    THEN BadCoordinates
    ELSE [col |-> ColumnNameToNumber(colName), row |-> DigitsVal(rowText, 0),
          ok |-> TRUE]

\* the name split after its last letter or "$"
CellNameSplitAt(cell, i) ==
    IF i >= Len(cell) THEN BadCoordinates
    ELSE CoordinatesOf(Without(SubSeq(cell, 1, i), "$"), SubSeq(cell, i + 1, Len(cell)))

\* CellNameToCoordinates("C3") = (3, 3); "$" marks are dropped; ok is FALSE
\* for a text that is not letters followed by a positive row number
CellNameToCoordinates(cell) ==
    IF cell = <<>> \/ ~(IsUpper(cell[1]) \/ cell[1] = "$") THEN BadCoordinates
    ELSE CellNameSplitAt(cell,
            CHOOSE i \in 1..Len(cell) :
                /\ IsUpper(cell[i]) \/ cell[i] = "$"
                /\ \A j \in (i + 1)..Len(cell) : ~(IsUpper(cell[j]) \/ cell[j] = "$"))

CoordinatesToCellName(col, row) ==
    IF col < 1 \/ row < 1 THEN <<>> ELSE ColumnNumberToName(col) \o IntText(row)

\* areaRefToCoordinates("A1:B3") = [1, 1, 2, 3], the two corners as written
areaRangeToCoordinates(first, last) ==
    [coordinates |-> <<first.col, first.row, last.col, last.row>>,
     ok |-> first.ok /\ last.ok]

areaRefToCoordinates(ref) ==
    IF Len(Split(Without(ref, "$"), ":")) < 2
    THEN [coordinates |-> <<>>, ok |-> FALSE]
    ELSE areaRangeToCoordinates(
            CellNameToCoordinates(Split(Without(ref, "$"), ":")[1]),
            CellNameToCoordinates(Split(Without(ref, "$"), ":")[2]))

\* sortCoordinates: x1 <= x2 and y1 <= y2 afterwards
sortCoordinates(c) ==
    <<IF c[3] < c[1] THEN c[3] ELSE c[1], IF c[4] < c[2] THEN c[4] ELSE c[2],
      IF c[3] < c[1] THEN c[1] ELSE c[3], IF c[4] < c[2] THEN c[2] ELSE c[4]>>

(***************************************************************************)
(* The worksheet store.  A nil pointer is the empty sequence and a pointer *)
(* to x is <<x>>; rows and cells are the slices of xlsxSheetData.          *)
(***************************************************************************)
\* the largest and the smallest of a set of numbers, 0 for the empty set
MaxOf(sis) == IF sis = {} THEN 0 ELSE CHOOSE m \in sis : \A n \in sis : n <= m

MinOf(sis) == IF sis = {} THEN 0 ELSE CHOOSE m \in sis : \A n \in sis : m <= n

NewCell(name) == [R |-> name, S |-> 0, T |-> "", V |-> <<>>, F |-> <<>>]

NewRow(r) == [R |-> r, S |-> 0, C |-> <<>>]

NewF(content) == [Content |-> content, T |-> "", Ref |-> <<>>, Si |-> <<>>]

STCellFormulaTypeShared == "shared"
STCellFormulaTypeDataTable == "dataTable"

ErrInvalidCellName == <<"c", "e", "l", "l">>
ErrParameterInvalid == <<"p", "a", "r", "a", "m">>

\* "append missing rows" of prepareSheetXML
appendRows(w, row) ==
    IF Len(w.Row) < row
    THEN [w EXCEPT !.Row = @ \o [k \in 1..(row - Len(@)) |-> NewRow(Len(@) + k)]]
    ELSE w

fillColumns(w, col, row) ==
    IF Len(w.Row[row].C) < col
    THEN [w EXCEPT !.Row[row].C =
            @ \o [k \in 1..(col - Len(@)) |->
                    NewCell(CoordinatesToCellName(Len(@) + k, row))]]
    ELSE w

\* a sheet made anew for the cell, the rows and cells it had left out
prepareSheetXMLFresh(w, col, row) == fillColumns(appendRows(EmptySheet, row), col, row)

\* prepareSheetXML: rows 1..row exist and row `row` has cells 1..col
prepareSheetXML(w, col, row) == fillColumns(appendRows(w, row), col, row)

\* membership in the area with its corners put in order first
cellInRefSorted(cell, ref) ==
    /\ cell[1] >= MinOf({ref[1], ref[3]}) /\ cell[1] <= MaxOf({ref[1], ref[3]})
    /\ cell[2] >= MinOf({ref[2], ref[4]}) /\ cell[2] <= MaxOf({ref[2], ref[4]})

cellInRef(cell, ref) ==
    cell[1] >= ref[1] /\ cell[1] <= ref[3] /\ cell[2] >= ref[2] /\ cell[2] <= ref[4]

checkCellInAreaOf(c, area, a) ==
    IF ~c.ok THEN [ok |-> FALSE, err |-> ErrInvalidCellName]
    ELSE IF Len(Split(area, ":")) /= 2 THEN [ok |-> FALSE, err |-> Nil]
    ELSE IF ~a.ok THEN [ok |-> FALSE, err |-> ErrInvalidCellName]
    ELSE [ok |-> cellInRef(<<c.col, c.row>>, a.coordinates), err |-> Nil]

checkCellInArea(cell, area) ==
    checkCellInAreaOf(CellNameToCoordinates(cell), area, areaRefToCoordinates(area))

RECURSIVE mergeCellsLoop(_, _)

mergeCellsStep(cells, axis, in) ==
    IF in.err /= Nil THEN [axis |-> axis, err |-> in.err]
    ELSE IF in.ok THEN mergeCellsLoop(Tail(cells), Split(Head(cells), ":")[1])
    ELSE mergeCellsLoop(Tail(cells), axis)

\* the loop of mergeCellsParser over ws.MergeCells.Cells (no nil entry)
mergeCellsLoop(cells, axis) ==
    IF cells = <<>> THEN [axis |-> axis, err |-> Nil]
    ELSE mergeCellsStep(cells, axis, checkCellInArea(axis, Head(cells)))

mergeCellsParser(w, axis) == mergeCellsLoop(w.MergeCells, ToUpper(axis))

prepareCellAt(w, cell, c) ==
    IF ~c.ok
    THEN [ws |-> w, cell |-> cell, col |-> 0, row |-> 0, err |-> ErrInvalidCellName]
    ELSE [ws |-> prepareSheetXML(w, c.col, c.row), cell |-> cell,
          col |-> c.col, row |-> c.row, err |-> Nil]

prepareCellMerged(w, m) ==
    IF m.err /= Nil
    THEN [ws |-> w, cell |-> m.axis, col |-> 0, row |-> 0, err |-> m.err]
    ELSE prepareCellAt(w, m.axis, CellNameToCoordinates(m.axis))

\* prepareCell: the cell after merged-cell redirection, made to exist
prepareCell(w, cell) == prepareCellMerged(w, mergeCellsParser(w, cell))

\* the positions <<i, j>> of the cells of w that satisfy Test
CellsWhere(w, Test(_, _)) ==
    UNION {{<<i, j>> : j \in {k \in 1..Len(w.Row[i].C) : Test(w.Row[i], w.Row[i].C[k])}} :
             i \in 1..Len(w.Row)}

\* the first position in the order of "for rows { for cells" 
FirstCell(hits) ==
    CHOOSE h \in hits :
        \A g \in hits : h[1] < g[1] \/ (h[1] = g[1] /\ h[2] <= g[2])

lastRowNum(w) == IF Len(w.Row) > 0 THEN w.Row[Len(w.Row)].R ELSE 0

getCellHitsAt(w, axis, c) ==
    IF ~c.ok THEN [err |-> ErrInvalidCellName, hits |-> {}]
    ELSE IF c.row > lastRowNum(w) THEN [err |-> Nil, hits |-> {}]
    ELSE [err |-> Nil,
          hits |-> CellsWhere(w, LAMBDA r, x : r.R = c.row /\ x.R = axis)]

getCellHitsMerged(w, m) ==
    IF m.err /= Nil THEN [err |-> m.err, hits |-> {}]
    ELSE getCellHitsAt(w, m.axis, CellNameToCoordinates(m.axis))

\* getCellStringFunc up to the call of fn: the cells it offers to fn
getCellHits(w, axis) == getCellHitsMerged(w, mergeCellsParser(w, axis))

(***************************************************************************)
(* Formulas of cells: SetCellFormula, GetCellFormula, shared formulas.     *)
(***************************************************************************)
\* countSharedFormula: one more than the largest si in use, 0 without any
countSharedFormula(w) ==
    MaxOf({w.Row[h[1]].C[h[2]].F[1].Si[1] + 1 :
             h \in CellsWhere(w, LAMBDA r, x : x.F /= <<>> /\ x.F[1].Si /= <<>>)})

\* the body of the two loops of setSharedFormula for the cell (c, r)
markShared(w, c, r, cnt) ==
    [w EXCEPT !.Row[r].C[c].F =
        <<[(IF @ = <<>> THEN NewF(<<>>) ELSE @[1])
              EXCEPT !.T = STCellFormulaTypeShared, !.Si = <<cnt>>]>>]

\* "for c := coordinates[0]; ... { for r := coordinates[1]; ..."
RECURSIVE sharedLoop(_, _, _, _, _)
sharedLoop(w, c, r, coordinates, cnt) ==
    IF c > coordinates[3] THEN w
    ELSE IF r > coordinates[4] THEN sharedLoop(w, c + 1, coordinates[2], coordinates, cnt)
    ELSE sharedLoop(markShared(prepareSheetXML(w, c, r), c, r, cnt), c, r + 1,
                    coordinates, cnt)

setSharedFormulaOn(w, a) ==
    IF ~a.ok THEN [ws |-> w, err |-> ErrParameterInvalid]
    ELSE [ws |-> sharedLoop(w, sortCoordinates(a.coordinates)[1],
                            sortCoordinates(a.coordinates)[2],
                            sortCoordinates(a.coordinates), countSharedFormula(w)),
          err |-> Nil]

setSharedFormula(w, ref) == setSharedFormulaOn(w, areaRefToCoordinates(ref))

\* "if o.Ref != nil { cellData.F.Ref = *o.Ref }"
setFormulaRef(w, col, row, o) ==
    IF o.Ref /= <<>> THEN [w EXCEPT !.Row[row].C[col].F[1].Ref = o.Ref[1]] ELSE w

RECURSIVE formulaOpts(_, _, _, _)

formulaOptShared(r, col, row, opts) ==
    IF r.err /= Nil THEN r
    ELSE formulaOpts(setFormulaRef(r.ws, col, row, Head(opts)), col, row, Tail(opts))

\* "for _, o := range opts" of SetCellFormula
formulaOpts(w, col, row, opts) ==
    IF opts = <<>> THEN [ws |-> w, err |-> Nil]
    ELSE IF Head(opts).Type = <<>>
    THEN formulaOpts(setFormulaRef(w, col, row, Head(opts)), col, row, Tail(opts))
    ELSE IF Head(opts).Type[1] = STCellFormulaTypeDataTable
    THEN [ws |-> w, err |-> Nil]
    ELSE IF Head(opts).Type[1] = STCellFormulaTypeShared
    THEN formulaOptShared(
            setSharedFormula([w EXCEPT !.Row[row].C[col].F[1].T = Head(opts).Type[1]],
                             Head(opts).Ref[1]),
            col, row, opts)
    ELSE formulaOpts(
            setFormulaRef([w EXCEPT !.Row[row].C[col].F[1].T = Head(opts).Type[1]],
                          col, row, Head(opts)),
            col, row, Tail(opts))

setFormulaContent(w, col, row, formula) ==
    [w EXCEPT !.Row[row].C[col].F =
        IF @ /= <<>> THEN <<[@[1] EXCEPT !.Content = formula]>> ELSE <<NewF(formula)>>]

SetCellFormulaAt(p, formula, opts) ==
    IF p.err /= Nil THEN [ws |-> p.ws, err |-> p.err]
    ELSE IF formula = <<>>
    THEN [ws |-> [p.ws EXCEPT !.Row[p.row].C[p.col].F = <<>>], err |-> Nil]
    ELSE formulaOpts(setFormulaContent(p.ws, p.col, p.row, formula), p.col, p.row, opts)

\* SetCellFormula(sheet, axis, formula, opts...): [ws, err]
SetCellFormula(w, axis, formula, opts) ==
    SetCellFormulaAt(prepareCell(w, axis), formula, opts)

\* shiftCell: the reference moved by (dCol, dRow), "$" parts kept in place
shiftCellAt(cellID, c, dCol, dRow) ==
    (IF cellID[1] = "$" THEN <<"$">> \o ColumnNumberToName(c.col)
     ELSE ColumnNumberToName(c.col + dCol))
    \o (IF \E k \in 2..Len(cellID) : cellID[k] = "$"
        THEN <<"$">> \o IntText(c.row)
        ELSE IntText(c.row + dRow))

shiftCell(cellID, dCol, dRow) ==
    shiftCellAt(cellID, CellNameToCoordinates(cellID), dCol, dRow)

\* the inner loop of parseSharedFormula: the end of the run of letters, then
\* digits or "$", that starts a candidate reference
RECURSIVE scanCellID(_, _, _)
scanCellID(orig, end, foundNum) ==
    IF end >= Len(orig) THEN [end |-> end, foundNum |-> foundNum]
    ELSE IF IsDigit(orig[end + 1]) \/ orig[end + 1] = "$"
    THEN scanCellID(orig, end + 1, TRUE)
    ELSE IF IsUpper(orig[end + 1]) /\ ~foundNum
    THEN scanCellID(orig, end + 1, foundNum)
    ELSE [end |-> end, foundNum |-> foundNum]

RECURSIVE parseSharedLoop(_, _, _, _, _, _, _)

parseSharedCellID(dCol, dRow, orig, start, res, s) ==
    IF s.foundNum
    THEN parseSharedLoop(dCol, dRow, orig, s.end + 1, s.end,
                         res \o shiftCell(SubSeq(orig, start + 1, s.end), dCol, dRow),
                         FALSE)
    ELSE parseSharedLoop(dCol, dRow, orig, s.end + 1, start, res, FALSE)

\* the outer loop of parseSharedFormula; end and start count bytes from 0
parseSharedLoop(dCol, dRow, orig, end, start, res, stringLiteral) ==
    IF end >= Len(orig) THEN [res |-> res, start |-> start]
    ELSE IF (orig[end + 1] = "\"") /= stringLiteral
    THEN parseSharedLoop(dCol, dRow, orig, end + 1, start, res, TRUE)
    ELSE IF IsUpper(orig[end + 1]) \/ orig[end + 1] = "$"
    THEN parseSharedCellID(dCol, dRow, orig, end,
                           res \o SubSeq(orig, start + 1, end),
                           scanCellID(orig, end + 1, FALSE))
    ELSE parseSharedLoop(dCol, dRow, orig, end + 1, start, res, FALSE)

parseSharedFormula(dCol, dRow, orig) ==
    parseSharedLoop(dCol, dRow, orig, 0, 0, <<>>, FALSE)

getSharedFormulaTail(orig, p) ==
    IF p.start < Len(orig) THEN p.res \o SubSeq(orig, p.start + 1, Len(orig)) ELSE p.res

getSharedFormulaFrom(c, a, s) ==
    getSharedFormulaTail(c.F[1].Content,
        parseSharedFormula(a.col - s.col, a.row - s.row, c.F[1].Content))

getSharedFormulaOf(w, masters, axis) ==
    IF masters = {} THEN <<>>
    ELSE getSharedFormulaFrom(w.Row[FirstCell(masters)[1]].C[FirstCell(masters)[2]],
                              CellNameToCoordinates(axis),
                              CellNameToCoordinates(
                                  w.Row[FirstCell(masters)[1]].C[FirstCell(masters)[2]].R))

\* getSharedFormula: the formula of the first cell that carries the range of
\* group si, rewritten for the cell axis
getSharedFormula(w, si, axis) ==
    getSharedFormulaOf(w,
        CellsWhere(w, LAMBDA r, x :
            /\ x.F /= <<>>
            /\ x.F[1].Ref /= <<>>
            /\ x.F[1].T = STCellFormulaTypeShared
            /\ x.F[1].Si = <<si>>),
        axis)

getCellFormulaOf(w, c) ==
    IF c.F[1].T = STCellFormulaTypeShared /\ c.F[1].Si /= <<>>
    THEN getSharedFormula(w, c.F[1].Si[1], c.R)
    ELSE c.F[1].Content

getCellFormulaHits(w, l, hits) ==
    IF l.err /= Nil THEN [ret |-> <<>>, err |-> l.err]
    ELSE IF hits = {} THEN [ret |-> <<>>, err |-> Nil]
    ELSE [ret |-> getCellFormulaOf(w, w.Row[FirstCell(hits)[1]].C[FirstCell(hits)[2]]),
          err |-> Nil]

getCellFormulaIn(w, l) ==
    getCellFormulaHits(w, l, {h \in l.hits : w.Row[h[1]].C[h[2]].F /= <<>>})

\* GetCellFormula(sheet, axis): [ret, err]
GetCellFormula(w, axis) == getCellFormulaIn(w, getCellHits(w, axis))

(***************************************************************************)
(* SetCellFormula and GetCellFormula on the cells of columns 1..MaxFCol    *)
(* and rows 1..MaxFRow of an empty worksheet, at most MaxSets formulas     *)
(* set.  A formula is written as a list of items, a literal text or a cell *)
(* reference, so that the text a shifted formula should have is known      *)
(* without parsing it.  A shared formula is set on its master cell with a  *)
(* range of two cells or more that starts at that cell.                    *)
(***************************************************************************)
Lit(text) == [kind |-> "lit", text |-> text, col |-> 0, row |-> 0,
              absCol |-> FALSE, absRow |-> FALSE]

Ref(col, row, absCol, absRow) ==
    [kind |-> "ref", text |-> <<>>, col |-> col, row |-> row,
     absCol |-> absCol, absRow |-> absRow]

\* the text of an item in a formula moved by (dCol, dRow)
ItemText(it, dCol, dRow) ==
    IF it.kind = "lit" THEN it.text
    ELSE (IF it.absCol THEN <<"$">> \o ColumnNumberToName(it.col)
          ELSE ColumnNumberToName(it.col + dCol))
         \o (IF it.absRow THEN <<"$">> \o IntText(it.row)
             ELSE IntText(it.row + dRow))

RECURSIVE FormulaText(_, _, _)
FormulaText(items, dCol, dRow) ==
    IF items = <<>> THEN <<>>
    ELSE ItemText(Head(items), dCol, dRow) \o FormulaText(Tail(items), dCol, dRow)

\* =A1+B1
FSum == <<Lit(<<"=">>), Ref(1, 1, FALSE, FALSE), Lit(<<"+">>), Ref(2, 1, FALSE, FALSE)>>
\* =$A1*A$1
FMixed == <<Lit(<<"=">>), Ref(1, 1, TRUE, FALSE), Lit(<<"*">>), Ref(1, 1, FALSE, TRUE)>>
\* =LOG10(A1)
FLog10 == <<Lit(<<"=", "L", "O", "G", "1", "0", "(">>), Ref(1, 1, FALSE, FALSE),
            Lit(<<")">>)>>
\* =SUM(A1:B2)
FSumRange == <<Lit(<<"=", "S", "U", "M", "(">>), Ref(1, 1, FALSE, FALSE), Lit(<<":">>),
               Ref(2, 2, FALSE, FALSE), Lit(<<")">>)>>
\* ="A1"&A1
FQuoted == <<Lit(<<"=", "\"", "A", "1", "\"", "&">>), Ref(1, 1, FALSE, FALSE)>>

MasterFormulas == {FSum, FMixed, FLog10, FSumRange, FQuoted}

SharedOpts(ref) == <<[Type |-> <<STCellFormulaTypeShared>>, Ref |-> <<ref>>]>>

InitFormula ==
    /\ ws = EmptySheet
    /\ wsOp = ""
    /\ wsArgs = <<>>
    /\ wsRet = <<>>
    /\ wsErr = Nil
    /\ wsCount = 0
    /\ wsLastSet = NoSet
    /\ OthersIdle({"sheet"})

SetFormulaDone(r, args) ==
    /\ ws' = r.ws
    /\ wsErr' = r.err
    /\ wsOp' = "SetCellFormula"
    /\ wsArgs' = args
    /\ wsLastSet' = args
    /\ wsRet' = <<>>
    /\ wsCount' = wsCount + 1
    /\ Frame({"sheet"})

\* SetCellFormula(sheet, axis, formula) with no option: a formula or ""
DoSetCellFormula ==
    /\ wsCount < MaxSets
    /\ \E c \in 1..MaxFCol, r \in 1..MaxFRow, items \in {<<>>, FSum} :
          SetFormulaDone(
              SetCellFormula(ws, CoordinatesToCellName(c, r), FormulaText(items, 0, 0), <<>>),
              [shared |-> FALSE, col |-> c, row |-> r, toCol |-> c, toRow |-> r,
               items |-> items])

\* SetCellFormula(sheet, axis, formula, FormulaOpts{Type: shared, Ref: axis:to})
DoSetSharedFormula ==
    /\ wsCount < MaxSets
    /\ \E c \in 1..MaxFCol, r \in 1..MaxFRow, items \in MasterFormulas :
       \E c2 \in c..MaxFCol, r2 \in r..MaxFRow :
          /\ <<c2, r2>> /= <<c, r>>
          /\ SetFormulaDone(
              SetCellFormula(ws, CoordinatesToCellName(c, r), FormulaText(items, 0, 0),
                  SharedOpts(CoordinatesToCellName(c, r) \o <<":">>
                             \o CoordinatesToCellName(c2, r2))),
              [shared |-> TRUE, col |-> c, row |-> r, toCol |-> c2, toRow |-> r2,
               items |-> items])

GetFormulaDone(r, c, row) ==
    /\ wsRet' = r.ret
    /\ wsErr' = r.err
    /\ wsOp' = "GetCellFormula"
    /\ wsArgs' = [col |-> c, row |-> row]
    /\ UNCHANGED <<ws, wsCount, wsLastSet>>
    /\ Frame({"sheet"})

\* GetCellFormula(sheet, axis)
DoGetCellFormula ==
    \E c \in 1..MaxFCol, r \in 1..MaxFRow :
        GetFormulaDone(GetCellFormula(ws, CoordinatesToCellName(c, r)), c, r)

NextFormula == DoSetCellFormula \/ DoSetSharedFormula \/ DoGetCellFormula

SpecFormula == InitFormula /\ [][NextFormula]_vars

\* C4: once a shared formula is set over a range with its master formula at
\* the first cell, reading the formula of any other cell of the range
\* returns the master text with its relative references shifted by the
\* distance of that cell from the master cell.
C4_SharedShift ==
    (/\ wsOp = "GetCellFormula"
     /\ wsLastSet.shared
     /\ wsArgs.col \in wsLastSet.col..wsLastSet.toCol
     /\ wsArgs.row \in wsLastSet.row..wsLastSet.toRow
     /\ <<wsArgs.col, wsArgs.row>> /= <<wsLastSet.col, wsLastSet.row>>)
    => wsRet = FormulaText(wsLastSet.items, wsArgs.col - wsLastSet.col,
                           wsArgs.row - wsLastSet.row)

(***************************************************************************)
(* Loading a worksheet: workSheetReader, checkSheet, checkRow.             *)
(***************************************************************************)
\* "row := len(Row); if lastRow >= row { row = lastRow }"
checkSheetRows(x) ==
    IF Len(x.Row) >= 1 /\ x.Row[Len(x.Row)].R >= Len(x.Row)
    THEN x.Row[Len(x.Row)].R
    ELSE Len(x.Row)

\* a sheet left as decoded, its missing rows not filled in
checkSheetKeep(x) == x

\* checkSheet: rows 1..row, each the row of the file with that number (the
\* last one, existsRows being a map) or a new empty row
checkSheet(x) ==
    [x EXCEPT !.Row =
        [i \in 1..checkSheetRows(x) |->
            IF \E k \in 1..Len(x.Row) : x.Row[k].R = i
            THEN x.Row[MaxOf({k \in 1..Len(x.Row) : x.Row[k].R = i})]
            ELSE NewRow(i)]]

\* "check and fill the cell without r attribute in a row element"
RECURSIVE fillR(_, _, _, _)

fillRNamed(cells, idx, rCount, rowNum, c) ==
    IF ~c.ok THEN [cells |-> cells, err |-> ErrInvalidCellName]
    ELSE fillR(cells, idx + 1, IF c.col > rCount THEN c.col ELSE rCount, rowNum)

fillR(cells, idx, rCount, rowNum) ==
    IF idx > Len(cells) THEN [cells |-> cells, err |-> Nil]
    ELSE IF cells[idx].R /= <<>>
    THEN fillRNamed(cells, idx, rCount + 1, rowNum, CellNameToCoordinates(cells[idx].R))
    ELSE fillR([cells EXCEPT ![idx].R = CoordinatesToCellName(rCount + 1, rowNum)],
               idx + 1, rCount + 1, rowNum)

\* the new list of lastCol cells with the old cells copied to their columns
placeCells(oldList, lastCol, rowNum) ==
    [j \in 1..lastCol |->
        IF \E k \in 1..Len(oldList) : CellNameToCoordinates(oldList[k].R).col = j
        THEN oldList[MaxOf({k \in 1..Len(oldList) :
                              CellNameToCoordinates(oldList[k].R).col = j})]
        ELSE NewCell(CoordinatesToCellName(j, rowNum))]

RECURSIVE checkRowLoop(_, _)

checkRowLast(x, rowIdx, cells, last) ==
    IF ~last.ok THEN [ws |-> x, err |-> ErrInvalidCellName, panic |-> FALSE]
    ELSE IF Len(cells) >= last.col
    THEN checkRowLoop([x EXCEPT !.Row[rowIdx].C = cells], rowIdx + 1)
    ELSE IF \E k \in 1..Len(cells) :
              LET c == CellNameToCoordinates(cells[k].R).col IN c < 1 \/ c > last.col
    THEN [ws |-> x, err |-> Nil, panic |-> TRUE]
    ELSE checkRowLoop([x EXCEPT !.Row[rowIdx].C = placeCells(cells, last.col, rowIdx)],
                      rowIdx + 1)

checkRowFilled(x, rowIdx, f) ==
    IF f.err /= Nil THEN [ws |-> x, err |-> f.err, panic |-> FALSE]
    ELSE checkRowLast(x, rowIdx, f.cells,
                      CellNameToCoordinates(f.cells[Len(f.cells)].R))

\* "for rowIdx := range ws.SheetData.Row" of checkRow
checkRowLoop(x, rowIdx) ==
    IF rowIdx > Len(x.Row) THEN [ws |-> x, err |-> Nil, panic |-> FALSE]
    ELSE IF Len(x.Row[rowIdx].C) = 0 THEN checkRowLoop(x, rowIdx + 1)
    ELSE checkRowFilled(x, rowIdx, fillR(x.Row[rowIdx].C, 1, 0, rowIdx))

checkRow(x) == checkRowLoop(x, 1)

(***************************************************************************)
(* The worksheet parts loaded: rows 1..MaxLRow, each absent or present     *)
(* with cells in increasing column order over columns 1..MaxLCol; a cell   *)
(* carries its r attribute (code = its column) or omits it (code 0) and    *)
(* then stands one column after the cell before it.                        *)
(***************************************************************************)
\* the column of the k-th cell of a row written with these codes
RECURSIVE CodeColumn(_, _)
CodeColumn(codes, k) ==
    IF codes[k] /= 0 THEN codes[k]
    ELSE IF k = 1 THEN 1
    ELSE CodeColumn(codes, k - 1) + 1

RowCodes ==
    {codes \in UNION {[1..n -> 0..MaxLCol] : n \in 0..MaxLCol} :
        \A k \in 1..Len(codes) :
            /\ CodeColumn(codes, k) <= MaxLCol
            /\ k > 1 => CodeColumn(codes, k) > CodeColumn(codes, k - 1)}

SheetInputs ==
    {in \in [1..MaxLRow -> [present : BOOLEAN, codes : RowCodes]] :
        \A n \in 1..MaxLRow : ~in[n].present => in[n].codes = <<>>}

\* a populated cell of the file
FileCell(name) == [R |-> name, S |-> 0, T |-> "", V |-> <<"v">>, F |-> <<>>]

FileRow(n, codes) ==
    [R |-> n, S |-> 0,
     C |-> [k \in 1..Len(codes) |->
              FileCell(IF codes[k] = 0 THEN <<>> ELSE CoordinatesToCellName(codes[k], n))]]

RECURSIVE FileRows(_, _)
FileRows(in, n) ==
    IF n > MaxLRow THEN <<>>
    ELSE (IF in[n].present THEN <<FileRow(n, in[n].codes)>> ELSE <<>>)
         \o FileRows(in, n + 1)

InitLoad ==
    /\ wsInput \in SheetInputs
    /\ wsXML = [Row |-> FileRows(wsInput, 1), MergeCells |-> <<>>, Cols |-> <<>>]
    /\ wsLoaded = FALSE
    /\ wsChecked = FALSE
    /\ ws = EmptySheet
    /\ wsOp = ""
    /\ wsArgs = <<>>
    /\ wsRet = <<>>
    /\ wsErr = Nil
    /\ wsCount = 0
    /\ wsLastSet = NoSet
    /\ OthersIdle({"sheet", "load"})

\* workSheetReader: decode, checkSheet and checkRow on the first call, the
\* cached worksheet afterwards
WorkSheetReader ==
    /\ wsCount < MaxLoads
    /\ IF ~wsLoaded
       THEN /\ \E r \in {IF wsChecked THEN [ws |-> wsXML, err |-> Nil, panic |-> FALSE]
                         ELSE checkRow(checkSheet(wsXML))} :
                 /\ ws' = r.ws
                 /\ wsOp' = IF r.panic THEN "panic" ELSE "workSheetReader"
            /\ wsLoaded' = TRUE
            /\ wsChecked' = TRUE
       ELSE /\ wsOp' = "workSheetReader"
            /\ UNCHANGED <<ws, wsLoaded, wsChecked>>
    /\ wsCount' = wsCount + 1
    /\ UNCHANGED <<wsInput, wsXML, wsArgs, wsRet, wsErr, wsLastSet>>
    /\ Frame({"sheet", "load"})

NextLoad == WorkSheetReader

SpecLoad == InitLoad /\ [][NextLoad]_vars

LastRowOf(in) == MaxOf({n \in 1..MaxLRow : in[n].present})

LastColOf(in, n) ==
    IF n <= MaxLRow /\ in[n].present /\ in[n].codes /= <<>>
    THEN CodeColumn(in[n].codes, Len(in[n].codes))
    ELSE 0

TotalCellChars == 32767

EmptySST == [SI |-> <<>>, Count |-> 0, UniqueCount |-> 0]

\* the escape of one character in the form _xHHHH_, one element of a text
BstrEscapes == {"_x0008_"}

\* bstrMarshal: every _xHHHH_ of the text gets the prefix _x005F
RECURSIVE bstrMarshal(_)
bstrMarshal(t) ==
    IF t = <<>> THEN <<>>
    ELSE (IF Head(t) \in BstrEscapes THEN <<"_x005F", Head(t)>> ELSE <<Head(t)>>)
         \o bstrMarshal(Tail(t))

truncated(value) ==
    IF Len(value) > TotalCellChars THEN SubSeq(value, 1, TotalCellChars) ELSE value

\* the xml:space attribute setCellStr asks for
spacePreserve(value) ==
    IF /\ Len(value) > 0
       /\ \E ascii \in {"\t", "\n", "\r", " "} :
             value[1] = ascii \/ value[Len(value)] = ascii
    THEN "preserve" ELSE ""

setCellStr(value) ==
    [t |-> "str", v |-> bstrMarshal(truncated(value)),
     ns |-> spacePreserve(truncated(value))]

\* a File that forgets the table in memory on every call
sharedStringsLoaderForget(f) ==
    [f EXCEPT !.Pkg = IF f.tmp /= <<>> THEN f.tmp ELSE @,
              !.tmp = <<>>, !.SharedStrings = <<>>]

sharedStringsLoader(f) ==
    IF f.tmp /= <<>>
    THEN [f EXCEPT !.Pkg = f.tmp, !.tmp = <<>>, !.SharedStrings = <<>>]
    ELSE f

\* "for i := range sharedStrings.SI": the map of the plain items
RECURSIVE sharedStringsIndex(_, _, _)
sharedStringsIndex(m, SI, i) ==
    IF i > Len(SI) THEN m
    ELSE sharedStringsIndex(
            IF SI[i].T /= <<>> THEN (SI[i].T[1].Val :> (i - 1)) @@ m ELSE m,
            SI, i + 1)

sharedStringsDecode(pkg) == IF pkg = <<>> THEN EmptySST ELSE pkg[1]

sharedStringsCounted(sst) ==
    IF sst.UniqueCount = 0 THEN [sst EXCEPT !.UniqueCount = sst.Count] ELSE sst

sharedStringsReader(f) ==
    IF f.SharedStrings = <<>>
    THEN [f EXCEPT
            !.SharedStrings = <<sharedStringsCounted(sharedStringsDecode(f.Pkg))>>,
            !.sharedStringsMap =
                sharedStringsIndex(@, sharedStringsDecode(f.Pkg).SI, 1)]
    ELSE f

PlainItem(val, space) == [T |-> <<[Val |-> val, Space |-> space]>>, R |-> <<>>]

setSharedStringNew(f, val) ==
    [f |-> [f EXCEPT
              !.SharedStrings[1] =
                  [SI |-> Append(@.SI, PlainItem(val, setCellStr(val).ns)),
                   Count |-> @.Count + 1,
                   UniqueCount |-> @.UniqueCount + 1],
              !.sharedStringsMap =
                  (setCellStr(val).v :> f.SharedStrings[1].UniqueCount) @@ @],
     si |-> f.SharedStrings[1].UniqueCount]

setSharedStringIn(f, val) ==
    IF val \in DOMAIN f.sharedStringsMap
    THEN [f |-> f, si |-> f.sharedStringsMap[val]]
    ELSE setSharedStringNew(f, val)

\* setSharedString(val): [f, si]
setSharedString(f, val) ==
    setSharedStringIn(sharedStringsReader(sharedStringsLoader(f)), val)

setCellStringOf(r) == [f |-> r.f, t |-> "s", v |-> NatText(r.si)]

setCellString(f, value) == setCellStringOf(setSharedString(f, truncated(value)))

\* prepareCellStyle: the style kept for the cell
prepareCellStyle(w, col, row, style) ==
    IF style = 0 /\ \E k \in 1..Len(w.Cols) :
          w.Cols[k].Min <= col /\ col <= w.Cols[k].Max /\ w.Cols[k].Style /= 0
    THEN w.Cols[MinOf({k \in 1..Len(w.Cols) :
            w.Cols[k].Min <= col /\ col <= w.Cols[k].Max /\ w.Cols[k].Style /= 0})].Style
    ELSE IF style = 0 /\ \E i \in 1..Len(w.Row) : w.Row[i].S /= 0
    THEN w.Row[MinOf({i \in 1..Len(w.Row) : w.Row[i].S /= 0})].S
    ELSE style

\* "cellData.S = ...; cellData.T, cellData.V = ..." on the prepared cell
setCellData(p, t, v) ==
    [p.ws EXCEPT !.Row[p.row].C[p.col] =
        [@ EXCEPT !.S = prepareCellStyle(p.ws, p.col, p.row, @), !.T = t, !.V = v]]

SetCellStrAt(p, f, r) ==
    IF p.err /= Nil THEN [ws |-> p.ws, f |-> f, err |-> p.err]
    ELSE [ws |-> setCellData(p, r.t, r.v), f |-> r.f, err |-> Nil]

\* SetCellStr(sheet, axis, value): [ws, f, err]
SetCellStr(w, f, axis, value) ==
    SetCellStrAt(prepareCell(w, axis), f, setCellString(f, value))

\* the runs of SetCellRichText, fonts left nil
richTextRuns(texts) ==
    [k \in 1..Len(texts) |->
        [T |-> <<[Val |-> setCellStr(texts[k]).v, Space |-> setCellStr(texts[k]).ns]>>,
         RPr |-> <<>>]]

RichItem(texts) == [T |-> <<>>, R |-> richTextRuns(texts)]

setRichTextIn(p, f, si) ==
    IF \E idx \in 1..Len(f.SharedStrings[1].SI) : f.SharedStrings[1].SI[idx] = si
    THEN [ws |-> setCellData(p, "s",
                   NatText(MinOf({idx \in 1..Len(f.SharedStrings[1].SI) :
                                     f.SharedStrings[1].SI[idx] = si}) - 1)),
          f |-> f, err |-> Nil]
    ELSE [ws |-> setCellData(p, "s", NatText(Len(f.SharedStrings[1].SI))),
          f |-> [f EXCEPT !.SharedStrings[1] =
                    [SI |-> Append(@.SI, si), Count |-> @.Count + 1,
                     UniqueCount |-> @.UniqueCount + 1]],
          err |-> Nil]

SetCellRichTextAt(p, f, texts) ==
    IF p.err /= Nil THEN [ws |-> p.ws, f |-> f, err |-> p.err]
    ELSE setRichTextIn(p, sharedStringsReader(sharedStringsLoader(f)), RichItem(texts))

\* SetCellRichText(sheet, cell, runs): [ws, f, err]; the texts are far
\* shorter than TotalCellChars, so ErrCellCharsLength is not returned
SetCellRichText(w, f, cell, texts) == SetCellRichTextAt(prepareCell(w, cell), f, texts)

(***************************************************************************)
(* Plain and rich text written to the cells of row 1 of a File whose       *)
(* shared string part holds up to MaxFileSI strings.  The count and        *)
(* uniqueCount attributes of the part are optional: each is absent (0) or  *)
(* written by the producer (the number of items, or one more use).         *)
(***************************************************************************)
FileTexts == {<<"a">>, <<" ", "b">>}

SstTexts == FileTexts \cup {<<"_x0008_">>}

RichTexts == {<<<<"a">>>>, <<<<"a">>, <<" ", "b">>>>}

FileSIs ==
    {si \in UNION {[1..n -> {PlainItem(t, spacePreserve(t)) : t \in FileTexts}] :
                      n \in 0..MaxFileSI} :
        \A i, j \in 1..Len(si) : i /= j => si[i] /= si[j]}

FileParts ==
    {p \in [SI : FileSIs, Count : 0..(MaxFileSI + 1), UniqueCount : 0..MaxFileSI] :
        /\ p.Count \in {0, Len(p.SI)} \cup {Len(p.SI) + 1 : n \in 1..Len(p.SI)}
        /\ p.UniqueCount \in {0, Len(p.SI)}}

InitSst ==
    /\ \E p \in FileParts, inTemp \in BOOLEAN :
          /\ sstPkg = IF inTemp THEN <<>> ELSE <<p>>
          /\ sstTempFile = IF inTemp THEN <<p>> ELSE <<>>
    /\ SharedStrings = <<>>
    /\ sharedStringsMap = <<>>
    /\ ws = EmptySheet
    /\ wsOp = ""
    /\ wsArgs = <<>>
    /\ wsRet = <<>>
    /\ wsErr = Nil
    /\ wsCount = 0
    /\ wsLastSet = NoSet
    /\ OthersIdle({"sheet", "sst"})

FileOf == [Pkg |-> sstPkg, tmp |-> sstTempFile, SharedStrings |-> SharedStrings,
           sharedStringsMap |-> sharedStringsMap]

\* the write done: wsRet is the v attribute the cell now carries
SstWriteDone(r, op, col, value) ==
    /\ ws' = r.ws
    /\ sstPkg' = r.f.Pkg
    /\ sstTempFile' = r.f.tmp
    /\ SharedStrings' = r.f.SharedStrings
    /\ sharedStringsMap' = r.f.sharedStringsMap
    /\ wsErr' = r.err
    /\ wsOp' = op
    /\ wsArgs' = [col |-> col, value |-> value]
    /\ wsRet' = r.ws.Row[1].C[col].V
    /\ wsCount' = wsCount + 1
    /\ UNCHANGED wsLastSet
    /\ Frame({"sheet", "sst"})

DoSetCellStr ==
    /\ wsCount < MaxWrites
    /\ \E col \in 1..2, value \in SstTexts :
          \E r \in {SetCellStr(ws, FileOf, CoordinatesToCellName(col, 1), value)} :
              SstWriteDone(r, "SetCellStr", col, value)

DoSetCellRichText ==
    /\ wsCount < MaxWrites
    /\ \E col \in 1..2, texts \in RichTexts :
          \E r \in {SetCellRichText(ws, FileOf, CoordinatesToCellName(col, 1), texts)} :
              SstWriteDone(r, "SetCellRichText", col, texts)

NextSst == DoSetCellStr \/ DoSetCellRichText

SpecSst == InitSst /\ [][NextSst]_vars

\* the string items of the table as a reader of the File finds them
SstSI ==
    IF SharedStrings /= <<>> THEN SharedStrings[1].SI
    ELSE IF sstTempFile /= <<>> THEN sstTempFile[1].SI
    ELSE IF sstPkg /= <<>> THEN sstPkg[1].SI
    ELSE <<>>

\* the positions of the plain items of si holding exactly the text val
PlainAt(si, val) == {i \in 1..Len(si) : si[i].T /= <<>> /\ si[i].T[1].Val = val}

\* C6: a plain-string write of a text the table already holds gives the
\* cell the index of that item and leaves the table as it is; a write of a
\* text the table does not hold appends one item with that text and gives
\* the cell the index of the new item, the former length of the table.
C6_Intern ==
    [][(wsOp' = "SetCellStr" /\ wsCount' = wsCount + 1) =>
          IF PlainAt(SstSI, wsArgs'.value) /= {}
          THEN /\ SstSI' = SstSI
               /\ \E i \in PlainAt(SstSI, wsArgs'.value) : wsRet' = NatText(i - 1)
          ELSE /\ Len(SstSI') = Len(SstSI) + 1
               /\ PlainAt(SstSI', wsArgs'.value) = {Len(SstSI) + 1}
               /\ wsRet' = NatText(Len(SstSI))]_vars

AreaCase(col, row, x1, y1, x2, y2) ==
    [col |-> col, row |-> row, x1 |-> x1, y1 |-> y1, x2 |-> x2, y2 |-> y2,
     cell |-> CoordinatesToCellName(col, row),
     area |-> CoordinatesToCellName(x1, y1) \o <<":">> \o CoordinatesToCellName(x2, y2)]

CaseB9 == AreaCase(2, 9, 1, 1, 2, 9)

CaseC4 == AreaCase(3, 4, 4, 6, 1, 1)

AreaCases ==
    {AreaCase(c, r, x1, y1, x2, y2) :
        c \in 1..MaxACol, r \in 1..MaxARow,
        x1 \in 1..MaxACol, y1 \in 1..MaxARow, x2 \in 1..MaxACol, y2 \in 1..MaxARow}
    \cup {CaseB9, CaseC4}

InitArea ==
    /\ wsArgs \in AreaCases
    /\ wsOp = ""
    /\ wsRet = <<>>
    /\ wsErr = Nil
    /\ ws = EmptySheet
    /\ wsCount = 0
    /\ wsLastSet = NoSet
    /\ OthersIdle({"sheet"})

CheckCellInArea ==
    /\ wsOp = ""
    /\ \E r \in {checkCellInArea(wsArgs.cell, wsArgs.area)} :
          /\ wsRet' = r.ok
          /\ wsErr' = r.err
    /\ wsOp' = "checkCellInArea"
    /\ UNCHANGED <<ws, wsArgs, wsCount, wsLastSet>>
    /\ Frame({"sheet"})

NextArea == CheckCellInArea

SpecArea == InitArea /\ [][NextArea]_vars

\* C8: checkCellInArea returns true exactly when the cell lies between the
\* two corners of the area as they are written, first corner <= cell <=
\* second corner in both the column and the row; it puts no corner in order,
\* so an area written with its corners reversed holds no cell.
C8_AsWritten ==
    wsOp = "checkCellInArea" =>
        /\ wsErr = Nil
        /\ wsRet = (/\ wsArgs.x1 <= wsArgs.col /\ wsArgs.col <= wsArgs.x2
                    /\ wsArgs.y1 <= wsArgs.row /\ wsArgs.row <= wsArgs.y2)

\* ("C4", "D6:A1") answered false, C4 lying between A1 and D6
C8_Witness ==
    /\ wsOp = "checkCellInArea"
    /\ wsArgs = CaseC4
    /\ wsRet = FALSE

\* C8 as claimed: the answer is membership in the area with its corners put
\* in order (auto-normalized).
C8_Normalized ==
    wsOp = "checkCellInArea" =>
        wsRet = (/\ MinOf({wsArgs.x1, wsArgs.x2}) <= wsArgs.col
                 /\ wsArgs.col <= MaxOf({wsArgs.x1, wsArgs.x2})
                 /\ MinOf({wsArgs.y1, wsArgs.y2}) <= wsArgs.row
                 /\ wsArgs.row <= MaxOf({wsArgs.y1, wsArgs.y2}))

(***************************************************************************)
(* Merged cells and cell values: MergeCell, isOverlap, SetCellInt,         *)
(* GetCellValue.  ws.MergeCells is the sequence of the Ref of each merged  *)
(* cell (no nil entry).                                                    *)
(***************************************************************************)
ErrInvalidArea == <<"a", "r", "e", "a">>

isOverlap(rect1, rect2) ==
    \/ cellInRef(<<rect1[1], rect1[2]>>, rect2)
    \/ cellInRef(<<rect1[3], rect1[2]>>, rect2)
    \/ cellInRef(<<rect1[1], rect1[4]>>, rect2)
    \/ cellInRef(<<rect1[3], rect1[4]>>, rect2)
    \/ cellInRef(<<rect2[1], rect2[2]>>, rect1)
    \/ cellInRef(<<rect2[3], rect2[2]>>, rect1)
    \/ cellInRef(<<rect2[1], rect2[4]>>, rect1)
    \/ cellInRef(<<rect2[3], rect2[4]>>, rect1)

\* rect1 after the four swaps with an overlapping rect2
mergeRects(rect1, rect2) ==
    <<IF rect1[1] > rect2[1] THEN rect2[1] ELSE rect1[1],
      IF rect1[2] > rect2[2] THEN rect2[2] ELSE rect1[2],
      IF rect1[3] < rect2[3] THEN rect2[3] ELSE rect1[3],
      IF rect1[4] < rect2[4] THEN rect2[4] ELSE rect1[4]>>

rectRef(rect) ==
    CoordinatesToCellName(rect[1], rect[2]) \o <<":">>
        \o CoordinatesToCellName(rect[3], rect[4])

RECURSIVE mergeCellLoop(_, _, _)

mergeCellStep(cells, i, rect1, a) ==
    IF ~a.ok THEN [cells |-> cells, err |-> ErrInvalidCellName]
    ELSE IF isOverlap(rect1, a.coordinates)
    THEN mergeCellLoop(SubSeq(cells, 1, i - 1) \o SubSeq(cells, i + 1, Len(cells)),
                       i, mergeRects(rect1, a.coordinates))
    ELSE mergeCellLoop(cells, i + 1, rect1)

\* "for i := 0; i < len(xlsx.MergeCells.Cells); i++" and the append after it
mergeCellLoop(cells, i, rect1) ==
    IF i > Len(cells) THEN [cells |-> Append(cells, rectRef(rect1)), err |-> Nil]
    ELSE IF Len(Split(cells[i], ":")) /= 2 THEN [cells |-> cells, err |-> ErrInvalidArea]
    ELSE mergeCellStep(cells, i, rect1, areaRefToCoordinates(cells[i]))

MergeCellIn(w, a) ==
    IF ~a.ok THEN [cells |-> w.MergeCells, err |-> ErrInvalidCellName]
    ELSE mergeCellLoop(w.MergeCells, 1, sortCoordinates(a.coordinates))

MergeCellOf(w, r) == [ws |-> [w EXCEPT !.MergeCells = r.cells], err |-> r.err]

\* MergeCell(sheet, hcell, vcell): [ws, err]
MergeCell(w, hcell, vcell) ==
    MergeCellOf(w, MergeCellIn(w, areaRefToCoordinates(hcell \o <<":">> \o vcell)))

setCellInt(value) == [t |-> "", v |-> IntText(value)]

SetCellIntAt(p, value) ==
    IF p.err /= Nil THEN [ws |-> p.ws, err |-> p.err]
    ELSE [ws |-> setCellData(p, setCellInt(value).t, setCellInt(value).v), err |-> Nil]

\* SetCellInt(sheet, axis, value): [ws, err]
SetCellInt(w, axis, value) == SetCellIntAt(prepareCell(w, axis), value)

\* formattedValue of a cell whose style carries no number format: a
\* numeric text is parsed and written again, any other text is kept
formattedValueOf(pf, v) == IF pf.ok THEN FormatG(pf.v) ELSE v

formattedValue(st, v) == formattedValueOf(ParseFloat(v), v)

\* getValueFrom for a cell of type number or "str"
getValueFrom(c) == formattedValue(c.S, c.V)

GetCellValueIn(w, l) ==
    IF l.err /= Nil THEN [ret |-> <<>>, err |-> l.err]
    ELSE IF l.hits = {} THEN [ret |-> <<>>, err |-> Nil]
    ELSE [ret |-> getValueFrom(w.Row[FirstCell(l.hits)[1]].C[FirstCell(l.hits)[2]]),
          err |-> Nil]

\* GetCellValue(sheet, axis): [ret, err]
GetCellValue(w, axis) == GetCellValueIn(w, getCellHits(w, axis))

(***************************************************************************)
(* MergeCell and SetCellInt on the cells of columns 1..MaxMCol and rows    *)
(* 1..MaxMRow of an empty sheet.                                           *)
(***************************************************************************)
InitMerge ==
    /\ ws = EmptySheet
    /\ wsOp = ""
    /\ wsArgs = <<>>
    /\ wsRet = <<>>
    /\ wsErr = Nil
    /\ wsCount = 0
    /\ wsLastSet = NoSet
    /\ OthersIdle({"sheet"})

CellOpDone(r, op, args) ==
    /\ ws' = r.ws
    /\ wsErr' = r.err
    /\ wsOp' = op
    /\ wsArgs' = args
    /\ wsCount' = wsCount + 1
    /\ UNCHANGED <<wsRet, wsLastSet>>
    /\ Frame({"sheet"})

DoMergeCell ==
    /\ wsCount < MaxCellOps
    /\ \E c1 \in 1..MaxMCol, r1 \in 1..MaxMRow :
       \E c2 \in c1..MaxMCol, r2 \in r1..MaxMRow :
          CellOpDone(MergeCell(ws, CoordinatesToCellName(c1, r1),
                               CoordinatesToCellName(c2, r2)),
                     "MergeCell", [col |-> c1, row |-> r1, toCol |-> c2, toRow |-> r2])

\* SetCellInt(sheet, axis, value) on one of the cells cols x rows
SetCellIntOn(cols, rows, values, maxOps) ==
    /\ wsCount < maxOps
    /\ \E c \in cols, r \in rows, value \in values :
          CellOpDone(SetCellInt(ws, CoordinatesToCellName(c, r), value),
                     "SetCellInt", [col |-> c, row |-> r, value |-> value])

DoSetCellInt == SetCellIntOn(1..MaxMCol, 1..MaxMRow, 1..2, MaxCellOps)

NextMerge == DoMergeCell \/ DoSetCellInt

SpecMerge == InitMerge /\ [][NextMerge]_vars

\* the cells <<col, row>> of the merged cell ref
RegionCells(ref) ==
    {<<x, y>> \in (1..MaxMCol) \X (1..MaxMRow) :
        cellInRefSorted(<<x, y>>, areaRefToCoordinates(ref).coordinates)}

\* C9: every cell of a merged range reads back what the range's anchor (its
\* first cell) reads back, and after a write to a cell of a merged range
\* the anchor of that range reads back the value written.
C9_MergedReadSame ==
    \A k \in 1..Len(ws.MergeCells) :
        /\ \A cell \in RegionCells(ws.MergeCells[k]) :
              GetCellValue(ws, CoordinatesToCellName(cell[1], cell[2])).ret
                  = GetCellValue(ws, Split(ws.MergeCells[k], ":")[1]).ret
        /\ (wsOp = "SetCellInt" /\ <<wsArgs.col, wsArgs.row>> \in RegionCells(ws.MergeCells[k]))
              => GetCellValue(ws, Split(ws.MergeCells[k], ":")[1]).ret
                    = IntText(wsArgs.value)

(***************************************************************************)
(* SetCellInt on a loaded sheet that carries styles: up to MaxSRow rows of *)
(* up to MaxSCol cells, a style index (0 for none) on each row and each    *)
(* cell, and no column definition or one that gives column 1 a style.      *)
(***************************************************************************)
StyledCells(i) ==
    {[j \in 1..m |-> [R |-> CoordinatesToCellName(j, i), S |-> cs[j], T |-> "",
                      V |-> <<>>, F |-> <<>>]] :
        m \in 0..MaxSCol, cs \in [1..MaxSCol -> {0, 7}]}

StyledRowsAt(i) == {[R |-> i, S |-> st, C |-> c] : st \in {0, 5, 6}, c \in StyledCells(i)}

\* the dense rows 1..n of a loaded sheet
RECURSIVE StyledRows(_)
StyledRows(n) ==
    IF n = 0 THEN {<<>>}
    ELSE {Append(rows, r) : rows \in StyledRows(n - 1), r \in StyledRowsAt(n)}

StyledSheets(maxRow) ==
    {[Row |-> rows, MergeCells |-> <<>>, Cols |-> cols] :
        rows \in UNION {StyledRows(n) : n \in 0..maxRow},
        cols \in {<<>>, <<[Min |-> 1, Max |-> 1, Style |-> 3]>>}}

InitStyle ==
    /\ ws \in StyledSheets(MaxSRow)
    /\ wsOp = ""
    /\ wsArgs = <<>>
    /\ wsRet = <<>>
    /\ wsErr = Nil
    /\ wsCount = 0
    /\ wsLastSet = NoSet
    /\ OthersIdle({"sheet"})

StyleSetCellInt == SetCellIntOn(1..MaxSCol, 1..MaxSRow, {1}, MaxStyleOps)

NextStyle == StyleSetCellInt

SpecStyle == InitStyle /\ [][NextStyle]_vars

\* the style of the cell <<col, row>> itself, of its column and of its row
CellStyleOf(w, col, row) ==
    IF row <= Len(w.Row) /\ col <= Len(w.Row[row].C) THEN w.Row[row].C[col].S ELSE 0

ColStyleOf(w, col) ==
    IF \E k \in 1..Len(w.Cols) :
          w.Cols[k].Min <= col /\ col <= w.Cols[k].Max /\ w.Cols[k].Style /= 0
    THEN w.Cols[MinOf({k \in 1..Len(w.Cols) :
            w.Cols[k].Min <= col /\ col <= w.Cols[k].Max /\ w.Cols[k].Style /= 0})].Style
    ELSE 0

RowStyleOf(w, row) == IF row <= Len(w.Row) THEN w.Row[row].S ELSE 0

StyleCascade(w, col, row) ==
    IF CellStyleOf(w, col, row) /= 0 THEN CellStyleOf(w, col, row)
    ELSE IF ColStyleOf(w, col) /= 0 THEN ColStyleOf(w, col)
    ELSE RowStyleOf(w, row)

\* C10: SetCellInt leaves the cell with the style it had if it had one, else
\* the style of the column that contains it, else the style of its own row,
\* else 0.
C10_StyleCascade ==
    [][(wsOp' = "SetCellInt" /\ wsCount' = wsCount + 1) =>
          ws'.Row[wsArgs'.row].C[wsArgs'.col].S
              = StyleCascade(ws, wsArgs'.col, wsArgs'.row)]_vars

(***************************************************************************)
(* Setters and a reader of one cell called from three goroutines:          *)
(* SetCellBool, SetCellValue with a time.Time (setCellTimeFunc) and        *)
(* GetCellValue.  shMem is the cell [T, V] (the sheet is loaded and the    *)
(* cell exists), shMu.ws the mutex of the worksheet.  The two stores of    *)
(* "cellData.T, cellData.V = ..." are two steps; where they race with      *)
(* another goroutine their order is not fixed.  The style index, which     *)
(* the setters write apart from T and V, is left out.                      *)
(***************************************************************************)
setCellBool(value) == [t |-> "b", v |-> IF value THEN <<"1">> ELSE <<"0">>]

\* setCellDefault: a numeric text keeps the type tag empty
setCellDefault(value) == [t |-> IF ParseFloat(value).ok THEN "" ELSE "str", v |-> value]

\* setCellTime for a time whose Excel time is the whole number serial > 0
setCellTime(serial) == setCellDefault(NatText(serial))

InitSetRace ==
    /\ thPc = [p \in {"bool", "time", "read"} |-> "start"]
    /\ \E value \in BOOLEAN, serial \in 2..MaxSerial :
          thLocal = [bool |-> [todo |-> {"T", "V"}, new |-> setCellBool(value)],
                     time |-> [todo |-> {"T", "V"}, new |-> setCellTime(serial)],
                     read |-> [left |-> <<"T", "V">>, t |-> "", v |-> <<>>]]
    /\ shMu = [ws |-> ""]
    /\ shMem = [T |-> "", V |-> <<>>]
    /\ OthersIdle({"conc"})

\* prepareCell: it takes and gives back the mutex before it returns
PrepareCellStep ==
    \E p \in {"bool", "time"} :
        /\ thPc[p] = "start"
        /\ shMu.ws = ""
        /\ thPc' = [thPc EXCEPT ![p] = "prepared"]
        /\ UNCHANGED <<thLocal, shMu, shMem>>
        /\ Frame({"conc"})

\* ws.Lock()
LockWs ==
    \E p \in DOMAIN thPc :
        /\ thPc[p] = IF p = "read" THEN "start" ELSE "prepared"
        /\ shMu.ws = ""
        /\ shMu' = [shMu EXCEPT !.ws = p]
        /\ thPc' = [thPc EXCEPT ![p] = "locked"]
        /\ UNCHANGED <<thLocal, shMem>>
        /\ Frame({"conc"})

\* one of the stores of "cellData.T, cellData.V = ..." by goroutine p
StoreField(p, fld) ==
    /\ fld \in thLocal[p].todo
    /\ shMem' = IF fld = "T" THEN [shMem EXCEPT !.T = thLocal[p].new.t]
                ELSE [shMem EXCEPT !.V = thLocal[p].new.v]
    /\ thLocal' = [thLocal EXCEPT ![p].todo = @ \ {fld}]

\* SetCellBool writes while it holds the mutex
SetCellBoolStore ==
    /\ thPc["bool"] = "locked"
    /\ \E fld \in {"T", "V"} : StoreField("bool", fld)
    /\ UNCHANGED <<thPc, shMu>>
    /\ Frame({"conc"})

\* ws.Unlock(): deferred in SetCellBool and getCellStringFunc, and right
\* after prepareCellStyle in setCellTimeFunc
UnlockWs ==
    \E p \in DOMAIN thPc :
        /\ thPc[p] = "locked"
        /\ p = "bool" => thLocal[p].todo = {}
        /\ p = "read" => thLocal[p].left = <<>>
        /\ shMu' = [shMu EXCEPT !.ws = ""]
        /\ thPc' = [thPc EXCEPT ![p] = IF p = "time" THEN "unlocked" ELSE "done"]
        /\ UNCHANGED <<thLocal, shMem>>
        /\ Frame({"conc"})

\* setCellTimeFunc writes after it gave the mutex back
SetCellTimeStore ==
    /\ thPc["time"] = "unlocked"
    /\ \E fld \in {"T", "V"} : StoreField("time", fld)
    /\ thPc' = [thPc EXCEPT !["time"] = IF thLocal'["time"].todo = {} THEN "done" ELSE @]
    /\ UNCHANGED shMu
    /\ Frame({"conc"})

\* getValueFrom reads c.T and then c.V while GetCellValue holds the mutex
GetCellValueLoad ==
    /\ thPc["read"] = "locked"
    /\ thLocal["read"].left /= <<>>
    /\ thLocal' = [thLocal EXCEPT
          !["read"] = IF Head(@.left) = "T"
                      THEN [@ EXCEPT !.t = shMem.T, !.left = Tail(@)]
                      ELSE [@ EXCEPT !.v = shMem.V, !.left = Tail(@)]]
    /\ UNCHANGED <<thPc, shMu, shMem>>
    /\ Frame({"conc"})

NextSetRace ==
    \/ PrepareCellStep
    \/ LockWs
    \/ SetCellBoolStore
    \/ UnlockWs
    \/ SetCellTimeStore
    \/ GetCellValueLoad

SpecSetRace == InitSetRace /\ [][NextSetRace]_vars

\* type tag and value of the blank cell or of one write
OneWrite(t, v) ==
    \/ t = "" /\ v = <<>>
    \/ \E p \in {"bool", "time"} : t = thLocal[p].new.t /\ v = thLocal[p].new.v

\* C11: what GetCellValue has read of the cell, and what the cell holds once
\* both setters have returned, is the type tag and the value of one and
\* the same write (or of the blank cell).
C11_AtomicTV ==
    /\ thPc["read"] = "done" => OneWrite(thLocal["read"].t, thLocal["read"].v)
    /\ (thPc["bool"] = "done" /\ thPc["time"] = "done") => OneWrite(shMem.T, shMem.V)

(***************************************************************************)
(* First access to a sheet and to the shared strings from MaxCallers       *)
(* goroutines: each calls workSheetReader and then sharedStringsReader.    *)
(* A decoded xlsxWorksheet is named by the goroutine that decoded it; ""   *)
(* is the nil pointer.  shMem is [Sheet, checked, decoded, densified,      *)
(* SharedStrings, sstDecoded]: f.Sheet[name], f.checked[name], the         *)
(* worksheets decoded and those passed through checkSheet and checkRow,    *)
(* f.SharedStrings and the goroutines that decoded the string table.       *)
(***************************************************************************)
Callers == {<<"g", k>> : k \in 1..MaxCallers}

NoSheet == <<>>

InitLoadRace ==
    /\ thPc = [g \in Callers |-> "workSheetReader"]
    /\ thLocal = [g \in Callers |-> [xlsx |-> NoSheet, ret |-> NoSheet]]
    /\ shMu = [f |-> NoSheet]
    /\ shMem = [Sheet |-> NoSheet, checked |-> FALSE, decoded |-> {}, densified |-> {},
                SharedStrings |-> NoSheet, sstDecoded |-> {}]
    /\ OthersIdle({"conc"})

GoTo(g, label) == thPc' = [thPc EXCEPT ![g] = label]

\* "if f.Sheet[name] == nil"
WsrTestNil ==
    \E g \in Callers :
        /\ thPc[g] = "workSheetReader"
        /\ GoTo(g, IF shMem.Sheet = NoSheet THEN "unmarshal" ELSE "return")
        /\ UNCHANGED <<thLocal, shMu, shMem>>
        /\ Frame({"conc"})

\* "var xlsx xlsxWorksheet; xml.Unmarshal(...)"
WsrUnmarshal ==
    \E g \in Callers :
        /\ thPc[g] = "unmarshal"
        /\ thLocal' = [thLocal EXCEPT ![g].xlsx = g]
        /\ shMem' = [shMem EXCEPT !.decoded = @ \cup {g}]
        /\ GoTo(g, "checked")
        /\ UNCHANGED shMu
        /\ Frame({"conc"})

\* "ok := f.checked[name]; if !ok { checkSheet; checkRow; f.checked[name] = true }"
WsrChecked ==
    \E g \in Callers :
        /\ thPc[g] = "checked"
        /\ shMem' = IF shMem.checked THEN shMem
                    ELSE [shMem EXCEPT !.densified = @ \cup {thLocal[g].xlsx},
                                       !.checked = TRUE]
        /\ GoTo(g, "store")
        /\ UNCHANGED <<thLocal, shMu>>
        /\ Frame({"conc"})

\* "f.Sheet[name] = &xlsx"
WsrStore ==
    \E g \in Callers :
        /\ thPc[g] = "store"
        /\ shMem' = [shMem EXCEPT !.Sheet = thLocal[g].xlsx]
        /\ GoTo(g, "return")
        /\ UNCHANGED <<thLocal, shMu>>
        /\ Frame({"conc"})

\* "return f.Sheet[name], nil"
WsrReturn ==
    \E g \in Callers :
        /\ thPc[g] = "return"
        /\ thLocal' = [thLocal EXCEPT ![g].ret = shMem.Sheet]
        /\ GoTo(g, "sharedStringsReader")
        /\ UNCHANGED <<shMu, shMem>>
        /\ Frame({"conc"})

\* sharedStringsReader: "f.Lock(); defer f.Unlock()"
SsrLock ==
    \E g \in Callers :
        /\ thPc[g] = "sharedStringsReader"
        /\ shMu.f = NoSheet
        /\ shMu' = [shMu EXCEPT !.f = g]
        /\ GoTo(g, "locked")
        /\ UNCHANGED <<thLocal, shMem>>
        /\ Frame({"conc"})

\* "if f.SharedStrings == nil { decode; f.SharedStrings = &sharedStrings }"
SsrLoad ==
    \E g \in Callers :
        /\ thPc[g] = "locked"
        /\ shMem' = IF shMem.SharedStrings = NoSheet
                    THEN [shMem EXCEPT !.SharedStrings = g, !.sstDecoded = @ \cup {g}]
                    ELSE shMem
        /\ GoTo(g, "unlock")
        /\ UNCHANGED <<thLocal, shMu>>
        /\ Frame({"conc"})

SsrUnlock ==
    \E g \in Callers :
        /\ thPc[g] = "unlock"
        /\ shMu' = [shMu EXCEPT !.f = NoSheet]
        /\ GoTo(g, "done")
        /\ UNCHANGED <<thLocal, shMem>>
        /\ Frame({"conc"})

NextLoadRace ==
    \/ WsrTestNil
    \/ WsrUnmarshal
    \/ WsrChecked
    \/ WsrStore
    \/ WsrReturn
    \/ SsrLock
    \/ SsrLoad
    \/ SsrUnlock

SpecLoadRace == InitLoadRace /\ [][NextLoadRace]_vars

\* C12: the sheet is decoded at most once and densified at most once, the
\* string table is decoded at most once, and the callers that have
\* returned from workSheetReader hold the same worksheet, the one cached.
C12_LoadOnce ==
    /\ Cardinality(shMem.decoded) <= 1
    /\ Cardinality(shMem.densified) <= 1
    /\ Cardinality(shMem.sstDecoded) <= 1
    /\ \A g \in Callers :
          thLocal[g].ret /= NoSheet => thLocal[g].ret = shMem.Sheet

(***************************************************************************)
(* AddPictureFromBytes from MaxInserters goroutines on one File.  thLocal  *)
(* holds each call's sheet and picture bytes, the count read by countMedia *)
(* and the media name returned by addMedia; shMu holds the owner of f.mu   *)
(* and of each worksheet's mu; shMem.Pkg is the "xl/media/image" part of   *)
(* f.Pkg, a function from the number in the part's name to its bytes (the  *)
(* extension is the same for every picture).                               *)
(***************************************************************************)
Inserters == {<<"p", k>> : k \in 1..MaxInserters}

PicSheets == {"Sheet1", "Sheet2"}

PicFiles == {<<"img", k>> : k \in 0..MaxInserters}

NoMedia == 0

PkgStore(pkg, media, file) == [k \in DOMAIN pkg \cup {media} |-> IF k = media THEN file ELSE pkg[k]]

countMedia(pkg) == Cardinality(DOMAIN pkg)

\* the names addMedia's Range can stop at: the parts with the same bytes
sameMedia(pkg, file) == {k \in DOMAIN pkg : pkg[k] = file}

InitAddPicture ==
    /\ thPc = [p \in Inserters |-> "AddPictureFromBytes"]
    /\ \E sheets \in [Inserters -> PicSheets], files \in [Inserters -> PicFiles \ {<<"img", 0>>}] :
          thLocal = [p \in Inserters |->
                        [sheet |-> sheets[p], file |-> files[p], count |-> 0, media |-> NoMedia]]
    /\ shMu = [k \in {"f"} \cup PicSheets |-> NoSheet]
    /\ \E pkg \in {<<>>, <<<<"img", 0>>>>} : shMem = [Pkg |-> pkg]
    /\ OthersIdle({"conc"})

\* "f.mu.Lock(); ws, err := f.workSheetReader(sheet)"
AddPictureLockFile ==
    \E p \in Inserters :
        /\ thPc[p] = "AddPictureFromBytes"
        /\ shMu["f"] = NoSheet
        /\ shMu' = [shMu EXCEPT !["f"] = p]
        /\ GoTo(p, "workSheetReader")
        /\ UNCHANGED <<thLocal, shMem>>
        /\ Frame({"conc"})

\* "f.mu.Unlock()"
AddPictureUnlockFile ==
    \E p \in Inserters :
        /\ thPc[p] = "workSheetReader"
        /\ shMu' = [shMu EXCEPT !["f"] = NoSheet]
        /\ GoTo(p, "ws.mu.Lock")
        /\ UNCHANGED <<thLocal, shMem>>
        /\ Frame({"conc"})

\* "ws.mu.Lock()"
AddPictureLockSheet ==
    \E p \in Inserters :
        /\ thPc[p] = "ws.mu.Lock"
        /\ shMu[thLocal[p].sheet] = NoSheet
        /\ shMu' = [shMu EXCEPT ![thLocal[p].sheet] = p]
        /\ GoTo(p, "countMedia")
        /\ UNCHANGED <<thLocal, shMem>>
        /\ Frame({"conc"})

\* addMedia: "count := f.countMedia()"
addMediaCount ==
    \E p \in Inserters :
        /\ thPc[p] = "countMedia"
        /\ thLocal' = [thLocal EXCEPT ![p].count = countMedia(shMem.Pkg)]
        /\ GoTo(p, "Range")
        /\ UNCHANGED <<shMu, shMem>>
        /\ Frame({"conc"})

\* addMedia: the Range over f.Pkg for a part with the same bytes
addMediaRange ==
    \E p \in Inserters :
        /\ thPc[p] = "Range"
        /\ \/ /\ sameMedia(shMem.Pkg, thLocal[p].file) = {}
              /\ GoTo(p, "Store")
              /\ UNCHANGED thLocal
           \/ /\ \E name \in sameMedia(shMem.Pkg, thLocal[p].file) :
                    thLocal' = [thLocal EXCEPT ![p].media = name]
              /\ GoTo(p, "ws.mu.Unlock")
        /\ UNCHANGED <<shMu, shMem>>
        /\ Frame({"conc"})

\* addMedia: "media := ... strconv.Itoa(count+1) + ext; f.Pkg.Store(media, file)"
addMediaStore ==
    \E p \in Inserters :
        /\ thPc[p] = "Store"
        /\ shMem' = [shMem EXCEPT !.Pkg = PkgStore(@, thLocal[p].count + 1, thLocal[p].file)]
        /\ thLocal' = [thLocal EXCEPT ![p].media = thLocal[p].count + 1]
        /\ GoTo(p, "ws.mu.Unlock")
        /\ UNCHANGED shMu
        /\ Frame({"conc"})

\* "ws.mu.Unlock()"
AddPictureUnlockSheet ==
    \E p \in Inserters :
        /\ thPc[p] = "ws.mu.Unlock"
        /\ shMu' = [shMu EXCEPT ![thLocal[p].sheet] = NoSheet]
        /\ GoTo(p, "done")
        /\ UNCHANGED <<thLocal, shMem>>
        /\ Frame({"conc"})

NextAddPicture ==
    \/ AddPictureLockFile
    \/ AddPictureUnlockFile
    \/ AddPictureLockSheet
    \/ addMediaCount
    \/ addMediaRange
    \/ addMediaStore
    \/ AddPictureUnlockSheet

SpecAddPicture == InitAddPicture /\ [][NextAddPicture]_vars

\* C13: concurrent AddPicture calls never produce the same media id for
\* different pictures: every picture that has been added is stored under
\* the media name its call was given, and two calls with different bytes
\* were given different names.
C13_DistinctMedia ==
    \A p, q \in Inserters :
        (thPc[p] = "done" /\ thPc[q] = "done") =>
            /\ shMem.Pkg[thLocal[p].media] = thLocal[p].file
            /\ thLocal[p].file /= thLocal[q].file => thLocal[p].media /= thLocal[q].media

(***************************************************************************)
(* Row operations on a loaded sheet: RemoveRow, InsertRow, DuplicateRowTo  *)
(* and SetCellInt.  The part holds the rows of RowOrder in the order of    *)
(* the file, which need not be increasing; each row has one cell, in       *)
(* column B.  The sheet has no merged cells, so duplicateMergeCells        *)
(* returns at once.  adjustHelper moves the rows at or after num by offset *)
(* and makes the sheet dense again.                                        *)
(***************************************************************************)
ErrInvalidRowNumber == <<"r", "o", "w">>

\* the sequences of distinct row numbers 1..n, at most `len` long
RECURSIVE RowOrders(_, _)
RowOrders(n, len) ==
    IF len = 0 THEN {<<>>}
    ELSE RowOrders(n, len - 1)
         \cup {Append(o, r) : o \in {q \in RowOrders(n, len - 1) : Len(q) = len - 1},
                              r \in 1..n}

DistinctOrders(n) ==
    {o \in RowOrders(n, n) : \A i, j \in 1..Len(o) : i /= j => o[i] /= o[j]}

OrderedPart(o) ==
    [Row |-> [k \in 1..Len(o) |->
                [R |-> o[k], S |-> 0,
                 C |-> <<FileCell(CoordinatesToCellName(2, o[k]))>>]],
     MergeCells |-> <<>>, Cols |-> <<>>]

\* ajustSingleRowDimensions: the row renumbered and its cells renamed
ajustSingleRowDimensions(r, num) ==
    [r EXCEPT !.R = num,
              !.C = [j \in 1..Len(r.C) |->
                       [r.C[j] EXCEPT !.R =
                           CoordinatesToCellName(CellNameToCoordinates(r.C[j].R).col, num)]]]

adjustRowDimensions(w, row, offset) ==
    [w EXCEPT !.Row =
        [i \in 1..Len(w.Row) |->
            IF w.Row[i].R >= row /\ w.Row[i].R + offset > 0
            THEN ajustSingleRowDimensions(w.Row[i], w.Row[i].R + offset)
            ELSE w.Row[i]]]

\* adjustMergeCells, adjustAutoFilter, adjustCalcChain: each converts the
\* references it is to move to coordinates and returns the error of the
\* first that is no reference; a nil AutoFilter or CalcChain has none
adjustMergeCells(w) ==
    IF \E k \in 1..Len(w.MergeCells) : ~areaRefToCoordinates(w.MergeCells[k]).ok
    THEN ErrInvalidCellName ELSE Nil

adjustAutoFilter ==
    IF AutoFilter /= <<>> /\ ~areaRefToCoordinates(AutoFilter[1]).ok
    THEN ErrInvalidCellName ELSE Nil

adjustCalcChain ==
    IF CalcChain /= <<>>
       /\ \E k \in 1..Len(CalcChain[1]) : ~CellNameToCoordinates(CalcChain[1][k]).ok
    THEN ErrInvalidCellName ELSE Nil

\* the error adjustHelper returns before it makes the sheet dense again
adjustErr(w) ==
    IF adjustMergeCells(w) /= Nil THEN adjustMergeCells(w)
    ELSE IF adjustAutoFilter /= Nil THEN adjustAutoFilter
    ELSE adjustCalcChain

\* adjustHelper(sheet, rows, num, offset): [ws, err, panic]
adjustHelper(w, num, offset) ==
    IF adjustErr(w) /= Nil
    THEN [ws |-> adjustRowDimensions(w, num, offset), err |-> adjustErr(w), panic |-> FALSE]
    ELSE checkRow(checkSheet(adjustRowDimensions(w, num, offset)))

RowFailed(w, err) == [ws |-> w, err |-> err, panic |-> FALSE]

keepRows(w, row) == [w EXCEPT !.Row = SelectSeq(w.Row, LAMBDA v : v.R /= row)]

\* RemoveRow that answers nil when the row is past the end of the sheet
RemoveRowPastEnd(w, row) ==
    IF row < 1 THEN RowFailed(w, ErrInvalidRowNumber)
    ELSE IF row > Len(w.Row) THEN RowFailed(w, Nil)
    ELSE adjustHelper(keepRows(w, row), row, -1)

\* RemoveRow(sheet, row): [ws, err, panic]
RemoveRow(w, row) ==
    IF row < 1 THEN RowFailed(w, ErrInvalidRowNumber)
    ELSE IF row > Len(w.Row) THEN adjustHelper(w, row, -1)
    ELSE adjustHelper(keepRows(w, row), row, -1)

\* InsertRow(sheet, row): [ws, err, panic]
InsertRow(w, row) ==
    IF row < 1 THEN RowFailed(w, ErrInvalidRowNumber)
    ELSE adjustHelper(w, row, 1)

\* the index of the first row numbered row, 0 for none
rowIndex(w, row) == MinOf({i \in 1..Len(w.Row) : w.Row[i].R = row})

\* DuplicateRowTo after adjustHelper returned a: the copy takes the place
\* of the row numbered row2, or is appended when the sheet ends before row2
duplicateRowPlace(a, rowCopy, row2) ==
    IF a.err /= Nil \/ a.panic THEN a
    ELSE IF rowIndex(a.ws, row2) = 0 /\ Len(a.ws.Row) >= row2 THEN a
    ELSE IF rowIndex(a.ws, row2) /= 0
    THEN [a EXCEPT !.ws.Row[rowIndex(a.ws, row2)] = ajustSingleRowDimensions(rowCopy, row2)]
    ELSE [a EXCEPT !.ws.Row = Append(@, ajustSingleRowDimensions(rowCopy, row2))]

\* DuplicateRowTo(sheet, row, row2): [ws, err, panic]
DuplicateRowTo(w, row, row2) ==
    IF row < 1 THEN RowFailed(w, ErrInvalidRowNumber)
    ELSE IF row > Len(w.Row) \/ row2 < 1 \/ row = row2 THEN RowFailed(w, Nil)
    ELSE IF rowIndex(w, row) = 0 THEN RowFailed(w, Nil)
    ELSE duplicateRowPlace(adjustHelper(w, row2, 1), w.Row[rowIndex(w, row)], row2)

InitRows ==
    /\ wsInput \in DistinctOrders(MaxRRow)
    /\ wsXML = OrderedPart(wsInput)
    /\ wsLoaded = FALSE
    /\ wsChecked = FALSE
    /\ ws = EmptySheet
    /\ wsOp = ""
    /\ wsArgs = <<>>
    /\ wsRet = <<>>
    /\ wsErr = Nil
    /\ wsCount = 0
    /\ wsLastSet = NoSet
    /\ OthersIdle({"sheet", "load"})

\* the worksheet workSheetReader returns: [ws, err, panic]
sheetRead == IF wsLoaded THEN RowFailed(ws, Nil) ELSE checkRow(checkSheet(wsXML))

RowOpDone(r, op, args) ==
    /\ ws' = r.ws
    /\ wsErr' = r.err
    /\ wsOp' = IF r.panic THEN "panic" ELSE op
    /\ wsArgs' = args
    /\ wsCount' = wsCount + 1
    /\ wsLoaded' = TRUE
    /\ wsChecked' = TRUE
    /\ UNCHANGED <<wsInput, wsXML, wsRet, wsLastSet>>
    /\ Frame({"sheet", "load"})

\* an operation on the worksheet that workSheetReader returned
RowOpOn(r, op, args, result(_)) ==
    IF r.panic \/ r.err /= Nil THEN RowOpDone(r, op, args)
    ELSE RowOpDone(result(r.ws), op, args)

\* the first access that only reads
RowsLoad ==
    /\ ~wsLoaded
    /\ RowOpDone(sheetRead, "workSheetReader", <<>>)

DoRemoveRow ==
    /\ wsCount < MaxRowOps
    /\ \E row \in 0..MaxRRow :
          RowOpOn(sheetRead, "RemoveRow", [row |-> row], LAMBDA w : RemoveRow(w, row))

DoInsertRow ==
    /\ wsCount < MaxRowOps
    /\ \E row \in 0..MaxRRow :
          RowOpOn(sheetRead, "InsertRow", [row |-> row], LAMBDA w : InsertRow(w, row))

DoDuplicateRowTo ==
    /\ wsCount < MaxRowOps
    /\ \E row \in 0..MaxRRow, row2 \in 1..(MaxRRow + 1) :
          RowOpOn(sheetRead, "DuplicateRowTo", [row |-> row, row2 |-> row2],
                  LAMBDA w : DuplicateRowTo(w, row, row2))

SetCellIntRow(w, c, row) ==
    [ws |-> SetCellInt(w, CoordinatesToCellName(c, row), 1).ws,
     err |-> SetCellInt(w, CoordinatesToCellName(c, row), 1).err,
     panic |-> FALSE]

RowsSetCellInt ==
    /\ wsCount < MaxRowOps
    /\ \E c \in {1, 3}, row \in 1..(MaxRRow + 1) :
          RowOpOn(sheetRead, "SetCellInt", [col |-> c, row |-> row],
                  LAMBDA w : SetCellIntRow(w, c, row))

NextRows ==
    \/ RowsLoad
    \/ DoRemoveRow
    \/ DoInsertRow
    \/ DoDuplicateRowTo
    \/ RowsSetCellInt

SpecRows == InitRows /\ [][NextRows]_vars

\* the names of the cells of w, and of those that carry a value
CellNames(w) == {w.Row[p[1]].C[p[2]].R : p \in CellsWhere(w, LAMBDA r, c : TRUE)}

PopulatedNames(w) == {w.Row[p[1]].C[p[2]].R : p \in CellsWhere(w, LAMBDA r, c : c.V /= <<>>)}

C15_RowsIncreasing ==
    (wsLoaded /\ wsOp /= "panic") =>
        \A i \in 1..Len(ws.Row) :
            /\ ws.Row[i].R >= 1
            /\ i > 1 => ws.Row[i].R > ws.Row[i - 1].R

(***************************************************************************)
(* parseReference and rangeResolver.  A cellRef is [Col, Row, Sheet]; a    *)
(* cellRange is [From, To].  The map `filter` is kept as the sequence of   *)
(* its [cell, val] entries in the order the keys were first stored.        *)
(* A parse state is [refs, cellRanges, cellRefs, err]; a resolve state is  *)
(* [filter, err, ret], ret saying that the function has returned.          *)
(***************************************************************************)
SheetName(k) == <<"S", "h", "e", "e", "t">> \o NatText(k)

ErrSheetNotExist == <<"s", "h", "e", "e", "t">>

\* GetCellValue(sheet, cell) on the File f: [ret, err]
fileGetCellValue(f, sheet, cell) ==
    IF sheet \notin DOMAIN f THEN [ret |-> <<>>, err |-> ErrSheetNotExist]
    ELSE GetCellValue(f[sheet], cell)

Last(q) == q[Len(q)]

Front(q) == SubSeq(q, 1, Len(q) - 1)

NewCellRef(c, sheet) == [Col |-> c.col, Row |-> c.row, Sheet |-> sheet]

\* a part "Sheet!Cell" of the reference
parseNamedRef(st, tk, c) ==
    IF ~c.ok THEN [st EXCEPT !.err = ErrInvalidCellName]
    ELSE IF st.refs /= <<>>
    THEN [st EXCEPT !.cellRefs = Append(@, Last(st.refs)),
                    !.refs = Append(Front(st.refs), NewCellRef(c, tk[1]))]
    ELSE [st EXCEPT !.refs = Append(@, NewCellRef(c, tk[1]))]

\* a part "Cell" of the reference
parsePlainRef(st, sheet, c) ==
    IF ~c.ok THEN [st EXCEPT !.err = ErrInvalidCellName]
    ELSE IF st.refs = <<>>
    THEN [st EXCEPT !.refs = Append(@, NewCellRef(c, sheet))]
    ELSE [st EXCEPT !.cellRanges = Append(@, [From |-> Last(st.refs), To |-> NewCellRef(c, <<>>)]),
                    !.refs = Front(st.refs)]

parseRefPart(st, sheet, tk) ==
    IF Len(tk) = 2
    THEN parseNamedRef(st, tk, CellNameToCoordinates(tk[2]))
    ELSE parsePlainRef(st, sheet, CellNameToCoordinates(tk[1]))

RECURSIVE parseRefLoop(_, _, _, _)
parseRefLoop(st, sheet, parts, k) ==
    IF st.err /= Nil \/ k > Len(parts) THEN st
    ELSE parseRefLoop(parseRefPart(st, sheet, Split(parts[k], "!")), sheet, parts, k + 1)

\* "if refs.Len() > 0 { cellRefs.PushBack(refs.Back()) }"
parseRefRest(st) ==
    IF st.err = Nil /\ st.refs /= <<>>
    THEN [st EXCEPT !.cellRefs = Append(@, Last(st.refs)), !.refs = Front(st.refs)]
    ELSE st

\* the lists parseReference hands to rangeResolver
parseRefLists(sheet, reference) ==
    parseRefRest(parseRefLoop([refs |-> <<>>, cellRanges |-> <<>>, cellRefs |-> <<>>, err |-> Nil],
                              sheet, Split(Without(reference, "$"), ":"), 1))

\* an entry added for every store, the key already there or not
filterAppend(filter, cell, val) == Append(filter, [cell |-> cell, val |-> val])

\* "filter[cell] = val"
filterStore(filter, cell, val) ==
    IF \E i \in 1..Len(filter) : filter[i].cell = cell
    THEN [i \in 1..Len(filter) |->
            IF filter[i].cell = cell THEN [cell |-> cell, val |-> val] ELSE filter[i]]
    ELSE Append(filter, [cell |-> cell, val |-> val])

\* "if cell, err = CoordinatesToCellName(..); err != nil { return }
\*  if filter[cell], err = f.GetCellValue(sheet, cell); err != nil { return }"
resolveStored(rs, cell, v) ==
    [filter |-> filterStore(rs.filter, cell, v.ret), err |-> v.err, ret |-> v.err /= Nil]

resolveCell(f, rs, sheet, col, row) ==
    IF rs.ret THEN rs
    ELSE IF CoordinatesToCellName(col, row) = <<>>
    THEN [rs EXCEPT !.err = ErrInvalidCellName, !.ret = TRUE]
    ELSE resolveStored(rs, CoordinatesToCellName(col, row),
                       fileGetCellValue(f, sheet, CoordinatesToCellName(col, row)))

\* "for col := rng[0]; col <= rng[2]; col++ { for row := rng[1]; row <= rng[3]; row++"
RECURSIVE resolveRect(_, _, _, _, _, _)
resolveRect(f, rs, sheet, rng, col, row) ==
    IF rs.ret \/ col > rng[3] THEN rs
    ELSE IF row > rng[4] THEN resolveRect(f, rs, sheet, rng, col + 1, rng[2])
    ELSE resolveRect(f, resolveCell(f, rs, sheet, col, row), sheet, rng, col, row + 1)

\* one range: the sheets of its ends compared, then its cells read from
\* the sheet of its first end
resolveRange(f, rs, cr) ==
    resolveRect(f,
        IF cr.From.Sheet /= cr.To.Sheet THEN [rs EXCEPT !.err = formulaErrorVALUE] ELSE rs,
        cr.From.Sheet,
        sortCoordinates(<<cr.From.Col, cr.From.Row, cr.To.Col, cr.To.Row>>),
        sortCoordinates(<<cr.From.Col, cr.From.Row, cr.To.Col, cr.To.Row>>)[1],
        sortCoordinates(<<cr.From.Col, cr.From.Row, cr.To.Col, cr.To.Row>>)[2])

RECURSIVE resolveRanges(_, _, _, _)
resolveRanges(f, rs, cellRanges, k) ==
    IF rs.ret \/ k > Len(cellRanges) THEN rs
    ELSE resolveRanges(f, resolveRange(f, rs, cellRanges[k]), cellRanges, k + 1)

RECURSIVE resolveRefs(_, _, _, _)
resolveRefs(f, rs, cellRefs, k) ==
    IF rs.ret \/ k > Len(cellRefs) THEN rs
    ELSE resolveRefs(f, resolveCell(f, rs, cellRefs[k].Sheet, cellRefs[k].Col, cellRefs[k].Row),
                     cellRefs, k + 1)

\* rangeResolver up to its last loop: [filter, err, ret]
rangeResolver(f, cellRefs, cellRanges) ==
    resolveRefs(f, resolveRanges(f, [filter |-> <<>>, err |-> Nil, ret |-> FALSE], cellRanges, 1),
                cellRefs, 1)

\* "for _, val := range filter": the iteration starts at an entry the
\* runtime picks and goes round
rangeOver(filter, start) ==
    [i \in 1..Len(filter) |-> filter[((start + i - 2) % Len(filter)) + 1].val]

rangeStarts(filter) == IF filter = <<>> THEN {1} ELSE 1..Len(filter)

\* what parseReference returns when the map iteration starts at `start`
parseReferenceOf(st, rs, start) ==
    IF st.err /= Nil THEN [result |-> <<>>, err |-> st.err]
    ELSE IF rs.ret THEN [result |-> <<>>, err |-> rs.err]
    ELSE [result |-> rangeOver(rs.filter, start), err |-> rs.err]

parseReferenceIn(f, st, start) ==
    parseReferenceOf(st, IF st.err /= Nil THEN [filter |-> <<>>, err |-> Nil, ret |-> TRUE]
                         ELSE rangeResolver(f, st.cellRefs, st.cellRanges), start)

parseReference(f, sheet, reference, start) ==
    parseReferenceIn(f, parseRefLists(sheet, reference), start)

(***************************************************************************)
(* The File resolved against: Sheet1 holds a number in every cell of       *)
(* columns 1..cols and rows 1..rows, Sheet2 holds one in A1.  A reference  *)
(* is one cell, two ends joined by ":", or two ends and the cell A1, each  *)
(* end written with or without a sheet name.                               *)
(***************************************************************************)
RECURSIVE FilledSheet(_, _, _)
FilledSheet(cols, rows, k) ==
    IF k = 0 THEN EmptySheet
    ELSE SetCellInt(FilledSheet(cols, rows, k - 1),
                    CoordinatesToCellName(((k - 1) % cols) + 1, ((k - 1) \div cols) + 1), k).ws

RefSheets(cols, rows) ==
    [n \in {SheetName(1), SheetName(2)} |->
        IF n = SheetName(1) THEN FilledSheet(cols, rows, cols * rows)
        ELSE SetCellInt(EmptySheet, <<"A", "1">>, 0).ws]

RefEnds(cols, rows) ==
    [sheet : {<<>>, SheetName(1), SheetName(2)}, col : 1..cols, row : 1..rows]

RefInputs(cols, rows) ==
    {<<a>> : a \in RefEnds(cols, rows)}
    \cup {<<a, b>> : a \in RefEnds(cols, rows),
                     b \in {e \in RefEnds(cols, rows) : e.sheet = <<>>} \cup RefEnds(1, 1)}
    \cup {<<a, b, c>> : a \in {e \in RefEnds(cols, rows) : e.sheet = <<>>},
                        b \in {e \in RefEnds(cols, rows) : e.sheet = <<>>},
                        c \in {e \in RefEnds(1, 1) : e.sheet /= SheetName(2)}}

EndText(e) ==
    (IF e.sheet = <<>> THEN <<>> ELSE e.sheet \o <<"!">>) \o CoordinatesToCellName(e.col, e.row)

RECURSIVE ReferenceText(_)
ReferenceText(ends) ==
    IF Len(ends) = 1 THEN EndText(ends[1])
    ELSE EndText(ends[1]) \o <<":">> \o ReferenceText(Tail(ends))

InitRange ==
    /\ refSheets = RefSheets(MaxRefCol, MaxRefRow)
    /\ refIn \in RefInputs(MaxRefCol, MaxRefRow)
    /\ refText = ReferenceText(refIn)
    /\ refCalls = <<>>
    /\ OthersIdle({"ref"})

\* what parseReference(sheet, reference) can return, Sheet1 being the
\* sheet of the formula
parseReferenceReturns(st, rs) ==
    {parseReferenceOf(st, rs, start) : start \in rangeStarts(rs.filter)}

parseReferenceAll(f, st) ==
    parseReferenceReturns(st, IF st.err /= Nil THEN [filter |-> <<>>, err |-> Nil, ret |-> TRUE]
                              ELSE rangeResolver(f, st.cellRefs, st.cellRanges))

\* the first call
ParseReference ==
    /\ refCalls = <<>>
    /\ \E out \in parseReferenceAll(refSheets, parseRefLists(SheetName(1), refText)) :
          refCalls' = <<out>>
    /\ UNCHANGED <<refSheets, refIn, refText>>
    /\ Frame({"ref"})

\* the same call made once more
ParseReferenceAgain ==
    /\ Len(refCalls) = 1
    /\ \E out \in parseReferenceAll(refSheets, parseRefLists(SheetName(1), refText)) :
          refCalls' = Append(refCalls, out)
    /\ UNCHANGED <<refSheets, refIn, refText>>
    /\ Frame({"ref"})

NextRange == ParseReference \/ ParseReferenceAgain

SpecRange == InitRange /\ [][NextRange]_vars

\* the sheet an end names: its own, or the sheet of the formula
EndSheet(e) == IF e.sheet = <<>> THEN SheetName(1) ELSE e.sheet

\* C16: a reference of two ends that name different sheets is answered
\* with an error by every call.
C16_CrossSheetRejected ==
    (Len(refIn) = 2 /\ refIn[1].sheet /= <<>> /\ refIn[2].sheet /= <<>>
        /\ refIn[1].sheet /= refIn[2].sheet) =>
        \A k \in 1..Len(refCalls) : refCalls[k].err /= Nil

\* a range on one sheet: two ends, the second without a sheet name, and
\* after them possibly the cell A1 of the same sheet
OneSheetRange ==
    /\ Len(refIn) \in {2, 3}
    /\ refIn[2].sheet = <<>>
    /\ Len(refIn) = 3 => EndSheet(refIn[3]) = EndSheet(refIn[1])

\* the cells <<col, row>> such a reference covers
CoveredCells ==
    {<<c, r>> \in (1..MaxRefCol) \X (1..MaxRefRow) :
        \/ /\ c >= MinOf({refIn[1].col, refIn[2].col})
           /\ c <= MaxOf({refIn[1].col, refIn[2].col})
           /\ r >= MinOf({refIn[1].row, refIn[2].row})
           /\ r <= MaxOf({refIn[1].row, refIn[2].row})
        \/ Len(refIn) = 3 /\ <<c, r>> = <<refIn[3].col, refIn[3].row>>}

CoveredValue(p) ==
    fileGetCellValue(refSheets, EndSheet(refIn[1]), CoordinatesToCellName(p[1], p[2])).ret

\* C17: a range on one sheet, with or without a single cell after it,
\* resolves without error to one value for each cell between its least
\* and greatest column and row and for the single cell, a cell that is
\* both in the range and the single cell counted once: every text is in
\* the result as many times as there are covered cells that hold it.
C17_RangeExpansion ==
    OneSheetRange =>
        \A held \in {[p \in CoveredCells |-> CoveredValue(p)]} :
        \A k \in 1..Len(refCalls) :
            /\ refCalls[k].err = Nil
            /\ Len(refCalls[k].result) = Cardinality(CoveredCells)
            /\ \A p \in CoveredCells :
                  Cardinality({i \in 1..Len(refCalls[k].result) :
                                  refCalls[k].result[i] = held[p]})
                  = Cardinality({q \in CoveredCells : held[q] = held[p]})

\* "B2:A1:Sheet1!A1" was resolved: the four cells A1, B1, A2, B2 once each
C17_Witness ==
    /\ Len(refIn) = 3
    /\ refIn[1] = [sheet |-> <<>>, col |-> 2, row |-> 2]
    /\ refIn[2] = [sheet |-> <<>>, col |-> 1, row |-> 1]
    /\ refIn[3] = [sheet |-> SheetName(1), col |-> 1, row |-> 1]
    /\ refText = <<"B", "2", ":", "A", "1", ":">> \o SheetName(1) \o <<"!", "A", "1">>
    /\ Len(refCalls) >= 1
    /\ Len(refCalls[1].result) = 4
    /\ {refCalls[1].result[i] : i \in 1..4} = {<<"1">>, <<"2">>, <<"3">>, <<"4">>}

\* C18: every call with the same reference on the same sheets returns
\* the same values in the same order.
C18_SameOrder ==
    \A j, k \in 1..Len(refCalls) : refCalls[j] = refCalls[k]

(***************************************************************************)
(* A library function called with an argument list of at most MaxLibArgs   *)
(* texts: the empty text, a text that is no number, or an integer from -1  *)
(* to MaxLibNum.                                                           *)
(***************************************************************************)
LibNames ==
    {<<"G", "C", "D">>, <<"L", "C", "M">>, <<"A", "B", "S">>, <<"S", "I", "G", "N">>,
     <<"S", "U", "M">>, <<"P", "R", "O", "D", "U", "C", "T">>}

LibTexts(max) == {<<>>, <<"x">>} \cup {IntText(k) : k \in (-1)..max}

RECURSIVE LibArgLists(_, _)
LibArgLists(max, len) ==
    IF len = 0 THEN {<<>>}
    ELSE LibArgLists(max, len - 1)
         \cup {Append(a, t) : a \in {b \in LibArgLists(max, len - 1) : Len(b) = len - 1},
                              t \in LibTexts(max)}

InitLibrary ==
    /\ libName \in LibNames
    /\ libArgs \in LibArgLists(MaxLibNum, MaxLibArgs)
    /\ libOut = <<>>
    /\ libPc = "idle"
    /\ OthersIdle({"lib"})

\* the function called with the texts as its argument list
CallLibrary ==
    /\ libPc = "idle"
    /\ \E r \in {callFuncByName(libName, [k \in 1..Len(libArgs) |-> TextTok(libArgs[k])])} :
          /\ libOut' = r
          /\ libPc' = IF r.panic THEN "panic" ELSE "done"
    /\ UNCHANGED <<libName, libArgs>>
    /\ Frame({"lib"})

NextLibrary == CallLibrary

SpecLibrary == InitLibrary /\ [][NextLibrary]_vars

\* the call, GCD or LCM, has an argument that reads as a negative number
NegativeInput ==
    /\ libName \in {<<"G", "C", "D">>, <<"L", "C", "M">>}
    /\ \E k \in 1..Len(libArgs) : ParseFloat(libArgs[k]).ok /\ ParseFloat(libArgs[k]).v.n < 0

\* C19: no call of a library function panics, whatever the argument list,
\* and GCD and LCM answer a negative argument with an error that is
\* neither #NUM! nor #DIV/0!.
C19_LibraryTotal ==
    /\ libPc /= "panic"
    /\ (libPc = "done" /\ NegativeInput) =>
          /\ libOut.err /= Nil
          /\ libOut.err \notin {formulaErrorNUM, formulaErrorDIV}
          /\ libOut.result = <<>>

(***************************************************************************)
(* CalcCellValue on formulas that are well formed for the tokenizer but    *)
(* leave a stack short: a text alone, an operator with no right operand,   *)
(* an empty pair of parentheses, a function of one empty text; and on      *)
(* formulas with a double unary minus and with the operator ^.             *)
(***************************************************************************)
FTextAlone == <<TextTok(<<"a">>)>>
FOnePlus == <<N1, Infix("+")>>
FEmptyParens == <<LParen, RParen>>
FGcdOfEmpty == <<FuncStart(<<"G", "C", "D">>), TextTok(<<>>), FuncStop>>
FGcdOfMinusOne == <<FuncStart(<<"G", "C", "D">>), Prefix("-"), N1, FuncStop>>
FLcmTwoThree == <<FuncStart(<<"L", "C", "M">>), N2, ArgSep, N3, FuncStop>>

FDoubleMinus == <<Prefix("-"), Prefix("-"), N1>>
FPower == <<N2, Infix("^"), N3>>

EdgeFormulas ==
    {FTextAlone, FOnePlus, FEmptyParens, FGcdOfEmpty, FGcdOfMinusOne, FLcmTwoThree,
     FDoubleMinus, FPower}

InitEval ==
    /\ tokens \in FuncFormulas \cup EdgeFormulas \cup Operands
    /\ tokIdx = 1
    /\ opdStack = <<>>
    /\ optStack = <<>>
    /\ opfStack = <<>>
    /\ opfdStack = <<>>
    /\ opftStack = <<>>
    /\ argsList = <<>>
    /\ calcPc = "idle"
    /\ calcResult = <<>>
    /\ calcErr = Nil
    /\ lastCall = NoCall
    /\ OthersIdle({"calc"})

SpecEval == InitEval /\ [][NextCalc]_vars

\* C20: no evaluation panics: CalcCellValue ends every formula with a
\* result or with an error returned to the caller.
C20_NeverPanics == calcPc /= "panic"

(***************************************************************************)
(* SetCellHyperLink on a sheet whose part held up to TotalSheetHyperlinks  *)
(* hyperlinks when it was loaded.  The links read from the part are kept   *)
(* as their number alone; the links appended by the calls are kept whole.  *)
(***************************************************************************)
TotalSheetHyperlinks == 65530

MaxLinkOps == 2

ErrTotalSheetHyperlinks == <<"h", "y", "p", "e", "r", "l", "i", "n", "k", "s">>
ErrInvalidLinkType == <<"l", "i", "n", "k", " ", "t", "y", "p", "e">>

IsAlpha(c) == IsUpper(c) \/ IsUpper(ToUpper(<<c>>)[1])

\* the text of cell after its last letter
RowPart(cell) ==
    SubSeq(cell, 1 + (CHOOSE i \in 1..Len(cell) :
                        IsAlpha(cell[i]) /\ \A j \in (i + 1)..Len(cell) : ~IsAlpha(cell[j])),
           Len(cell))

\* SplitCellName: the error it returns, Nil for letters followed by a
\* positive row number
SplitCellName(cell) ==
    IF cell /= <<>> /\ IsAlpha(cell[1]) /\ AllDigits(RowPart(cell))
       /\ DigitsVal(RowPart(cell), 0) > 0
    THEN Nil
    ELSE ErrInvalidCellName

\* len(ws.Hyperlinks.Hyperlink)
hyperlinkLen(h) == h.held + Len(h.Hyperlink)

\* addRels: the relationship is appended and its number returned
addRels(rels) == rels + 1

\* the switch on linkType and the append: [Hyperlinks, rels, err]
linkAppend(h, rels, axis, link, linkType) ==
    CASE linkType = "External" ->
            [Hyperlinks |-> [h EXCEPT !.Hyperlink =
                                Append(@, [Ref |-> axis, Location |-> <<>>,
                                           RID |-> <<"r", "I", "d">> \o NatText(addRels(rels))])],
             rels |-> addRels(rels), err |-> Nil]
      [] linkType = "Location" ->
            [Hyperlinks |-> [h EXCEPT !.Hyperlink =
                                Append(@, [Ref |-> axis, Location |-> link, RID |-> <<>>])],
             rels |-> rels, err |-> Nil]
      [] OTHER -> [Hyperlinks |-> h, rels |-> rels, err |-> ErrInvalidLinkType]

\* SetCellHyperLink(sheet, axis, link, linkType): [Hyperlinks, rels, err]
SetCellHyperLink(w, h, rels, axis, link, linkType) ==
    IF SplitCellName(axis) /= Nil
    THEN [Hyperlinks |-> h, rels |-> rels, err |-> SplitCellName(axis)]
    ELSE IF mergeCellsParser(w, axis).err /= Nil
    THEN [Hyperlinks |-> h, rels |-> rels, err |-> mergeCellsParser(w, axis).err]
    ELSE IF hyperlinkLen(h) > TotalSheetHyperlinks
    THEN [Hyperlinks |-> h, rels |-> rels, err |-> ErrTotalSheetHyperlinks]
    ELSE linkAppend(h, rels, mergeCellsParser(w, axis).axis, link, linkType)

\* the cell names handed to SetCellHyperLink
LinkAxes == {<<"A", "1">>, <<"b", "2">>, <<"A">>, <<"A", "0">>}

LinkTypes == {"External", "Location", "Other"}

InitHyperLink ==
    /\ ws \in {EmptySheet, [EmptySheet EXCEPT !.MergeCells = <<<<"A", "1", ":", "B", "2">>>>]}
    /\ wsOp = ""
    /\ wsArgs = <<>>
    /\ wsRet = <<>>
    /\ wsErr = Nil
    /\ wsCount = 0
    /\ wsLastSet = NoSet
    /\ \E n \in {0, TotalSheetHyperlinks - 1, TotalSheetHyperlinks} :
          Hyperlinks = [held |-> n, Hyperlink |-> <<>>]
    /\ sheetRels = 0
    /\ OthersIdle({"sheet", "link"})

DoSetCellHyperLink ==
    /\ wsCount < MaxLinkOps
    /\ \E axis \in LinkAxes, linkType \in LinkTypes :
       \E r \in {SetCellHyperLink(ws, Hyperlinks, sheetRels, axis, <<"x">>, linkType)} :
          /\ Hyperlinks' = r.Hyperlinks
          /\ sheetRels' = r.rels
          /\ wsErr' = r.err
          /\ wsOp' = "SetCellHyperLink"
          /\ wsArgs' = [axis |-> axis, linkType |-> linkType]
          /\ wsCount' = wsCount + 1
          /\ UNCHANGED <<ws, wsRet, wsLastSet>>
    /\ Frame({"sheet", "link"})

NextHyperLink == DoSetCellHyperLink

SpecHyperLink == InitHyperLink /\ [][NextHyperLink]_vars

\* C21: the worksheet never holds more than TotalSheetHyperlinks (65530)
\* hyperlinks: the count stays at or below the limit after every
\* SetCellHyperLink, the call that would exceed it having failed.
C21_HyperlinkLimit == hyperlinkLen(Hyperlinks) <= TotalSheetHyperlinks

(***************************************************************************)
(* GetCellValue on a cell of type "s": the cell C1 of the sheet carries an *)
(* index into the shared string table, as read from the worksheet part.    *)
(***************************************************************************)
\* strconv.Atoi with its error dropped: 0 for a text that is no integer
Atoi(t) ==
    IF AllDigits(t) THEN DigitsVal(t, 0)
    ELSE IF Len(t) > 1 /\ t[1] = "-" /\ AllDigits(Tail(t)) THEN -DigitsVal(Tail(t), 0)
    ELSE 0

\* bstrUnmarshal: _x005F before an escape is dropped and the escape kept
\* as text; an escape alone becomes the character it names
RECURSIVE bstrUnmarshal(_)
bstrUnmarshal(t) ==
    IF t = <<>> THEN <<>>
    ELSE IF Head(t) = "_x005F" /\ Len(t) > 1 /\ t[2] \in BstrEscapes
    THEN <<t[2]>> \o bstrUnmarshal(Tail(Tail(t)))
    ELSE IF Head(t) \in BstrEscapes THEN <<"\\b">> \o bstrUnmarshal(Tail(t))
    ELSE <<Head(t)>> \o bstrUnmarshal(Tail(t))

\* the texts of the runs, one after the other
RECURSIVE runsText(_)
runsText(R) ==
    IF R = <<>> THEN <<>>
    ELSE (IF Head(R).T /= <<>> THEN Head(R).T[1].Val ELSE <<>>) \o runsText(Tail(R))

\* xlsxSI.String
siString(x) ==
    IF Len(x.R) > 0 THEN bstrUnmarshal(runsText(x.R))
    ELSE IF x.T /= <<>> THEN bstrUnmarshal(x.T[1].Val)
    ELSE <<>>

\* d.SI[xlsxSI]: a negative index is out of range for the runtime
stringAt(c, d) ==
    IF Atoi(c.V) < 0 THEN [ret |-> <<>>, err |-> Nil, panic |-> TRUE]
    ELSE [ret |-> formattedValue(c.S, siString(d.SI[Atoi(c.V) + 1])), err |-> Nil,
          panic |-> FALSE]

\* getValueFrom with the shared string table d: [ret, err, panic].  The
\* cells of the model carry no inline string and no fraction digits.
getValueFromShared(c, d) ==
    IF c.T = "s" /\ c.V /= <<>> /\ Len(d.SI) > Atoi(c.V)
    THEN stringAt(c, d)
    ELSE [ret |-> formattedValue(c.S, c.V), err |-> Nil, panic |-> FALSE]

getSharedValueIn(w, f, l) ==
    IF l.err /= Nil THEN [f |-> f, ret |-> <<>>, err |-> l.err, panic |-> FALSE]
    ELSE IF l.hits = {} THEN [f |-> f, ret |-> <<>>, err |-> Nil, panic |-> FALSE]
    ELSE [f |-> sharedStringsReader(f)]
         @@ getValueFromShared(w.Row[FirstCell(l.hits)[1]].C[FirstCell(l.hits)[2]],
                               sharedStringsReader(f).SharedStrings[1])

\* GetCellValue(sheet, axis) of a File with a shared string table
GetSharedValue(w, f, axis) == getSharedValueIn(w, f, getCellHits(w, axis))

\* the cell C1 as the worksheet part gives it
SharedCells ==
    {[NewCell(<<"C", "1">>) EXCEPT !.T = "s", !.V = v] :
        v \in {<<>>, <<"x">>, <<"-", "1">>} \cup {NatText(k) : k \in 0..(MaxFileSI + 2)}}
      \cup {[NewCell(<<"C", "1">>) EXCEPT !.T = "str", !.V = <<"a">>],
            [NewCell(<<"C", "1">>) EXCEPT !.V = <<"1">>]}

InitSstRead ==
    /\ \E p \in FileParts, inTemp \in BOOLEAN :
          /\ sstPkg = IF inTemp THEN <<>> ELSE <<p>>
          /\ sstTempFile = IF inTemp THEN <<p>> ELSE <<>>
    /\ SharedStrings = <<>>
    /\ sharedStringsMap = <<>>
    /\ \E c \in SharedCells :
          ws = [prepareSheetXML(EmptySheet, 3, 1) EXCEPT !.Row[1].C[3] = c]
    /\ wsOp = ""
    /\ wsArgs = <<>>
    /\ wsRet = <<>>
    /\ wsErr = Nil
    /\ wsCount = 0
    /\ wsLastSet = NoSet
    /\ OthersIdle({"sheet", "sst"})

DoGetSharedValue ==
    /\ wsOp /= "panic"
    /\ \E col \in {1, 3} :
       \E r \in {GetSharedValue(ws, FileOf, CoordinatesToCellName(col, 1))} :
          /\ sstPkg' = r.f.Pkg
          /\ sstTempFile' = r.f.tmp
          /\ SharedStrings' = r.f.SharedStrings
          /\ sharedStringsMap' = r.f.sharedStringsMap
          /\ wsRet' = r.ret
          /\ wsErr' = r.err
          /\ wsOp' = IF r.panic THEN "panic" ELSE "GetCellValue"
          /\ wsArgs' = [col |-> col, value |-> ws.Row[1].C[col].V]
          /\ UNCHANGED <<ws, wsCount, wsLastSet>>
    /\ Frame({"sheet", "sst"})

\* SetCellStr on A1 or B1
SstReadSetCellStr ==
    /\ wsOp /= "panic"
    /\ DoSetCellStr

NextSstRead == SstReadSetCellStr \/ DoGetSharedValue

SpecSstRead == InitSstRead /\ [][NextSstRead]_vars

\* the cell C1 is of type "s" and its index is at or past the number of
\* items of the table
IndexPastCount ==
    /\ ws.Row[1].C[3].T = "s"
    /\ AllDigits(ws.Row[1].C[3].V)
    /\ DigitsVal(ws.Row[1].C[3].V, 0) >= Len(SstSI)

\* C22: a read of a shared string by an index at or past the current
\* count of the table fails with an error.
C22_IndexOutOfRange ==
    (wsOp = "GetCellValue" /\ wsArgs.col = 3 /\ IndexPastCount) => wsErr /= Nil

\* C23: after any sequence of MergeCell calls no two merged regions of the
\* sheet share a cell: the regions a new merged cell overlaps are removed.
C23_NoSharedCell ==
    \A j, k \in 1..Len(ws.MergeCells) :
        j /= k => RegionCells(ws.MergeCells[j]) \cap RegionCells(ws.MergeCells[k]) = {}

(***************************************************************************)
(* InsertRow and RemoveRow on a File whose sheet Sheet1 carries a merged   *)
(* cell, an auto filter and a calc chain that may hold a reference that is *)
(* no cell reference, and on a sheet the File does not have.               *)
(***************************************************************************)
MaxAdjustOps == 2

AdjustRefs ==
    {<<"A", "1", ":", "B", "1">>, <<"A", ":", "B", "1">>, <<"A", "1", ":", "B">>}

AdjustChains == {<<<<"B", "2">>>>, <<<<"B">>>>}

AdjustSheets == {"Sheet1", "SheetN"}

InitAdjust ==
    /\ wsInput \in {<<>>, <<1>>}
    /\ \E mc \in {<<>>} \cup {<<r>> : r \in AdjustRefs} :
          wsXML = [OrderedPart(wsInput) EXCEPT !.MergeCells = mc]
    /\ wsLoaded = FALSE
    /\ wsChecked = FALSE
    /\ ws = EmptySheet
    /\ wsOp = ""
    /\ wsArgs = <<>>
    /\ wsRet = <<>>
    /\ wsErr = Nil
    /\ wsCount = 0
    /\ wsLastSet = NoSet
    /\ AutoFilter \in {<<>>} \cup {<<r>> : r \in AdjustRefs}
    /\ CalcChain \in {<<>>} \cup {<<c>> : c \in AdjustChains}
    /\ OthersIdle({"sheet", "load", "adj"})

AdjustDone(r, op, args, loaded) ==
    /\ ws' = r.ws
    /\ wsErr' = r.err
    /\ wsOp' = IF r.panic THEN "panic" ELSE op
    /\ wsArgs' = args
    /\ wsCount' = wsCount + 1
    /\ wsLoaded' = loaded
    /\ wsChecked' = loaded
    /\ UNCHANGED <<wsInput, wsXML, wsRet, wsLastSet, AutoFilter, CalcChain>>
    /\ Frame({"sheet", "load", "adj"})

\* the operation on the worksheet that workSheetReader returns for the
\* sheet name, or the error of workSheetReader
AdjustOn(sheet, row, op, result(_)) ==
    IF row < 1
    THEN AdjustDone(RowFailed(ws, ErrInvalidRowNumber), op, [sheet |-> sheet, row |-> row],
                    wsLoaded)
    ELSE IF sheet /= "Sheet1"
    THEN AdjustDone(RowFailed(ws, ErrSheetNotExist), op, [sheet |-> sheet, row |-> row],
                    wsLoaded)
    ELSE IF sheetRead.panic \/ sheetRead.err /= Nil
    THEN AdjustDone(sheetRead, op, [sheet |-> sheet, row |-> row], TRUE)
    ELSE AdjustDone(result(sheetRead.ws), op, [sheet |-> sheet, row |-> row], TRUE)

AdjustRemoveRow ==
    /\ wsCount < MaxAdjustOps
    /\ wsOp /= "panic"
    /\ \E sheet \in AdjustSheets, row \in 0..MaxRRow :
          AdjustOn(sheet, row, "RemoveRow", LAMBDA w : RemoveRow(w, row))

AdjustInsertRow ==
    /\ wsCount < MaxAdjustOps
    /\ wsOp /= "panic"
    /\ \E sheet \in AdjustSheets, row \in 0..MaxRRow :
          AdjustOn(sheet, row, "InsertRow", LAMBDA w : InsertRow(w, row))

NextAdjust == AdjustRemoveRow \/ AdjustInsertRow

SpecAdjust == InitAdjust /\ [][NextAdjust]_vars

\* the references of the model that are no cell range
IllegalRefs == {<<"A", ":", "B", "1">>, <<"A", "1", ":", "B">>}

\* the File carries a reference with illegal coordinates
IllegalCoordinates ==
    \/ \E k \in 1..Len(wsXML.MergeCells) : wsXML.MergeCells[k] \in IllegalRefs
    \/ AutoFilter /= <<>> /\ AutoFilter[1] \in IllegalRefs
    \/ CalcChain /= <<>> /\ <<"B">> \in {CalcChain[1][k] : k \in 1..Len(CalcChain[1])}

TypedSetters == {"SetCellInt", "SetCellBool", "setCellTimeFunc"}

InitDiscipline ==
    /\ thPc = [p \in TypedSetters |-> "start"]
    /\ thLocal = [p \in TypedSetters |-> [across |-> FALSE, discipline |-> ""]]
    /\ shMu = [ws |-> ""]
    /\ shMem = [grown |-> {}, written |-> {}]
    /\ OthersIdle({"conc"})

\* where a setter stands once it holds the mutex
afterLock(pc) ==
    CASE pc = "start" -> "prepareSheetXML"
      [] pc = "grown" -> "prepareCell"
      [] pc = "prepared" -> "locked"

\* a prepareCell that leaves SetCellInt with the mutex in its hands
afterGrowthHeld(p) == IF p = "SetCellInt" THEN "locked" ELSE "growth done"

\* where a setter stands after the growth of prepareSheetXML: the mutex is
\* given back, taken again for the return of prepareCell and given back
afterGrowth(p) == "growth done"

\* where a setter stands once it gave the mutex back
afterUnlock(pc) ==
    CASE pc = "growth done" -> "grown"
      [] pc = "prepareCell" -> "prepared"
      [] pc = "styled" -> "unlocked"
      [] pc = "mutated" -> "done"

\* ws.Lock(): in prepareSheetXML, in prepareCell and in the setter
SetterLock ==
    \E p \in TypedSetters :
        /\ thPc[p] \in {"start", "grown", "prepared"}
        /\ shMu.ws = ""
        /\ shMu' = [shMu EXCEPT !.ws = p]
        /\ thPc' = [thPc EXCEPT ![p] = afterLock(thPc[p])]
        /\ UNCHANGED <<thLocal, shMem>>
        /\ Frame({"conc"})

\* prepareSheetXML: the rows and cells for the cell of the setter
SetterGrow ==
    \E p \in TypedSetters :
        /\ thPc[p] = "prepareSheetXML"
        /\ shMem' = [shMem EXCEPT !.grown = @ \cup {p}]
        /\ thLocal' = [thLocal EXCEPT ![p].across = (shMu.ws = p)]
        /\ thPc' = [thPc EXCEPT ![p] = afterGrowth(p)]
        /\ UNCHANGED shMu
        /\ Frame({"conc"})

\* ws.Unlock(): deferred in prepareSheetXML, prepareCell, SetCellInt and
\* SetCellBool; after prepareCellStyle in setCellTimeFunc
SetterUnlock ==
    \E p \in TypedSetters :
        /\ \/ thPc[p] \in {"growth done", "prepareCell"}
           \/ thPc[p] = "styled" /\ p = "setCellTimeFunc"
           \/ thPc[p] = "mutated" /\ p /= "setCellTimeFunc"
        /\ shMu.ws = p
        /\ shMu' = [shMu EXCEPT !.ws = ""]
        /\ thLocal' = [thLocal EXCEPT ![p].across = FALSE]
        /\ thPc' = [thPc EXCEPT ![p] = afterUnlock(thPc[p])]
        /\ UNCHANGED shMem
        /\ Frame({"conc"})

\* cellData.S = f.prepareCellStyle(ws, col, row, cellData.S)
SetterStyle ==
    \E p \in TypedSetters :
        /\ thPc[p] = "locked"
        /\ thPc' = [thPc EXCEPT ![p] = "styled"]
        /\ UNCHANGED <<thLocal, shMu, shMem>>
        /\ Frame({"conc"})

\* cellData.T, cellData.V = setCellInt(value) (setCellBool, setCellTime)
SetterMutate ==
    \E p \in TypedSetters :
        /\ thPc[p] = IF p = "setCellTimeFunc" THEN "unlocked" ELSE "styled"
        /\ shMem' = [shMem EXCEPT !.written = @ \cup {p}]
        /\ thLocal' = [thLocal EXCEPT
              ![p].discipline = IF thLocal[p].across /\ shMu.ws = p
                                THEN "held across both" ELSE "released between"]
        /\ thPc' = [thPc EXCEPT ![p] = IF p = "setCellTimeFunc" THEN "done" ELSE "mutated"]
        /\ UNCHANGED shMu
        /\ Frame({"conc"})

NextDiscipline ==
    \/ SetterLock
    \/ SetterGrow
    \/ SetterUnlock
    \/ SetterStyle
    \/ SetterMutate

SpecDiscipline == InitDiscipline /\ [][NextDiscipline]_vars

\* C25: the setters follow one lock discipline: any two setters that have
\* made their typed mutation either both held the worksheet lock across
\* the growth and the mutation or both released it between the two.
C25_UniformDiscipline ==
    \A p, q \in TypedSetters :
        (thLocal[p].discipline /= "" /\ thLocal[q].discipline /= "")
            => thLocal[p].discipline = thLocal[q].discipline

C25_Witness ==
    /\ \A p \in TypedSetters : thPc[p] = "done" /\ thLocal[p].discipline = "released between"
    /\ shMem.grown = TypedSetters
    /\ shMem.written = TypedSetters

(***************************************************************************)
(* The arguments a function call has in the token stream: the index of the *)
(* function-start token that the stop token at `stop` closes, and the      *)
(* number of arguments between the two.                                    *)
(***************************************************************************)
IsFuncStart(t) == t.TType = "Function" /\ t.TSubType = "Start"

IsFuncStop(t) == t.TType = "Function" /\ t.TSubType = "Stop"

\* walking back from i with `open` stop tokens still to be matched
RECURSIVE StartOf(_, _, _)
StartOf(tk, i, open) ==
    IF i < 1 THEN 0
    ELSE IF IsFuncStop(tk[i]) THEN StartOf(tk, i - 1, open + 1)
    ELSE IF IsFuncStart(tk[i])
    THEN (IF open = 0 THEN i ELSE StartOf(tk, i - 1, open - 1))
    ELSE StartOf(tk, i - 1, open)

\* the separators between start and stop that belong to this call
OwnSeparators(tk, start, stop) ==
    {i \in (start + 1)..(stop - 1) :
        tk[i].TType = "Argument" /\ StartOf(tk, i - 1, 0) = start}

ArgCount(tk, stop) ==
    IF StartOf(tk, stop - 1, 0) = stop - 1 THEN 0
    ELSE 1 + Cardinality(OwnSeparators(tk, StartOf(tk, stop - 1, 0), stop))

\* C26: on a function-stop token the named function is called with
\* argsList holding exactly the arguments of that call, at any depth of
\* nesting: as many as the call has in the formula, under the name of the
\* function the stop token closes.
C26_OwnArguments ==
    (calcPc /= "idle" /\ lastCall /= NoCall) =>
        /\ IsFuncStop(tokens[tokIdx - 1])
        /\ lastCall.name = stripName(tokens[StartOf(tokens, tokIdx - 2, 0)].TValue)
        /\ Len(lastCall.args) = ArgCount(tokens, tokIdx - 1)

\* C27: when the token stream is consumed and the outer operators are
\* drained the outer operand stack holds exactly one entry, the result,
\* and no operator was applied to a stack short of its operands: that
\* ends the evaluation in a panic, which otherwise happens only for the
\* three formulas that hold no operator at all.
C27_SoleOperand ==
    /\ (calcPc = "done" /\ calcErr = Nil /\ tokens /= <<>>) =>
          /\ Len(opdStack) = 1
          /\ calcResult = opdStack[1].TValue
    /\ calcPc = "panic" => tokens \in {FTextAlone, FEmptyParens, FGcdOfEmpty}

(***************************************************************************)
(* gcd(x, y) step by step on float64 values.  A float64 holds a whole      *)
(* number exactly only if it fits 53 bits; beyond that the result of a     *)
(* subtraction is rounded to the nearest float64, ties to even.  TLC       *)
(* integers have 32 bits, so a whole number below 2^55 is kept as the two  *)
(* limbs [h, l] of h * 2^27 + l.                                           *)
(***************************************************************************)
MaxGcdArg == 7

Limb == 2^27

F64(n) == [h |-> 0, l |-> n]

\* 2^54, the float64 that the text 18014398509481984 parses to
TwoTo54 == [h |-> Limb, l |-> 0]

f64Less(a, b) == a.h < b.h \/ (a.h = b.h /\ a.l < b.l)

\* the exact difference a - b for a >= b
exactSub(a, b) ==
    IF a.l >= b.l THEN [h |-> a.h - b.h, l |-> a.l - b.l]
    ELSE [h |-> a.h - b.h - 1, l |-> a.l + Limb - b.l]

\* the spacing of the float64 values around v: 1 below 2^53, 2 below 2^54,
\* 4 below 2^55
ulp(v) == IF v.h >= Limb THEN 4 ELSE IF 2 * v.h >= Limb THEN 2 ELSE 1

carry(v) == IF v.l >= Limb THEN [h |-> v.h + 1, l |-> v.l - Limb] ELSE v

\* v rounded to a multiple of u, the nearer one, the even one on a tie
roundTo(v, u) ==
    IF 2 * (v.l % u) < u \/ (2 * (v.l % u) = u /\ ((v.l - (v.l % u)) \div u) % 2 = 0)
    THEN [v EXCEPT !.l = v.l - (v.l % u)]
    ELSE carry([v EXCEPT !.l = (v.l - (v.l % u)) + u])

\* the float64 nearest to the whole number v
roundF64(v) ==
    IF ulp(roundTo(v, ulp(v))) = ulp(v) THEN roundTo(v, ulp(v))
    ELSE roundTo(v, ulp(roundTo(v, ulp(v))))

\* x - y in float64
f64Sub(a, b) == roundF64(exactSub(a, b))

\* the pairs handed to gcd: whole numbers that GCD and LCM accept
GcdPairs(max) ==
    {<<F64(a), F64(b)>> : a \in 0..max, b \in 0..max}
      \cup {<<TwoTo54, F64(1)>>, <<F64(1), TwoTo54>>}

InitGcd ==
    /\ \E p \in GcdPairs(MaxGcdArg) : gcdX = p[1] /\ gcdY = p[2]
    /\ gcdPc = "idle"
    /\ gcdRet = F64(0)
    /\ OthersIdle({"gcd"})

\* math.Trunc of both (they are whole) and the two tests for zero
GcdEnter ==
    /\ gcdPc = "idle"
    /\ IF gcdX = F64(0) THEN gcdPc' = "done" /\ gcdRet' = gcdY
       ELSE IF gcdY = F64(0) THEN gcdPc' = "done" /\ gcdRet' = gcdX
       ELSE gcdPc' = "loop" /\ gcdRet' = gcdRet
    /\ UNCHANGED <<gcdX, gcdY>>
    /\ Frame({"gcd"})

\* one iteration of "for x != y"
GcdStep ==
    /\ gcdPc = "loop"
    /\ gcdX /= gcdY
    /\ IF f64Less(gcdY, gcdX)
       THEN gcdX' = f64Sub(gcdX, gcdY) /\ gcdY' = gcdY
       ELSE gcdY' = f64Sub(gcdY, gcdX) /\ gcdX' = gcdX
    /\ UNCHANGED <<gcdPc, gcdRet>>
    /\ Frame({"gcd"})

\* "return x" after the loop
GcdReturn ==
    /\ gcdPc = "loop"
    /\ gcdX = gcdY
    /\ gcdPc' = "done"
    /\ gcdRet' = gcdX
    /\ UNCHANGED <<gcdX, gcdY>>
    /\ Frame({"gcd"})

NextGcd == GcdEnter \/ GcdStep \/ GcdReturn

SpecGcd == InitGcd /\ [][NextGcd]_vars /\ WF_vars(NextGcd)

\* C28: gcd terminates for every pair of whole numbers >= 0 that GCD and
\* LCM accept, pairs with a zero included: every call returns.
C28_GcdTerminates == <>(gcdPc = "done")

(***************************************************************************)
(* AddPictureFromBytes and DeletePicture called one after the other on the *)
(* cell A1 of two sheets, each sheet with a drawing of its own.  The media *)
(* parts are kept as in the concurrent model above: a function from the    *)
(* number in "xl/media/image<n><ext>" to the bytes.                        *)
(***************************************************************************)
MaxPicOps == 4

PkgDelete(pkg, media) == [k \in DOMAIN pkg \ {media} |-> pkg[k]]

\* the relationship of a drawing with the given rID, <<>> for nil
getDrawingRelationships(rels, rID) ==
    SelectSeq(rels, LAMBDA rel : rel.ID = rID)

\* the number addRels gives the next relationship of a drawing
RECURSIVE nextRID(_, _)
nextRID(rels, k) ==
    IF \E i \in 1..Len(rels) : rels[i].ID = k THEN nextRID(rels, k + 1) ELSE k

\* the rID AddPictureFromBytes anchors the picture with: the one of the
\* first relationship with this target, 0 when there is none
drawingRIDOf(rels, media) ==
    IF \E i \in 1..Len(rels) : rels[i].Target = media
    THEN rels[CHOOSE i \in 1..Len(rels) :
                /\ rels[i].Target = media
                /\ \A j \in 1..(i - 1) : rels[j].Target /= media].ID
    ELSE 0

\* the relationships after AddPictureFromBytes
relsWith(rels, media) ==
    IF drawingRIDOf(rels, media) /= 0 THEN rels
    ELSE Append(rels, [ID |-> nextRID(rels, 1), Target |-> media])

\* checkPicRef over every drawing's relationships: another relationship
\* with the same target
picUsed(allRels, sheet, rel) ==
    \E s \in DOMAIN allRels : \E i \in 1..Len(allRels[s]) :
        /\ allRels[s][i].ID /= rel.ID
        /\ allRels[s][i].Target = rel.Target

InitPictures ==
    /\ picPkg = <<>>
    /\ picRels = [s \in PicSheets |-> <<>>]
    /\ picAnchors = [s \in PicSheets |-> <<>>]
    /\ picOps = 0
    /\ OthersIdle({"pic"})

\* AddPictureFromBytes(sheet, "A1", pic) with addMedia storing the bytes
\* under media, or finding them there
AddPictureAs(sheet, file, media) ==
    /\ picPkg' = PkgStore(picPkg, media, file)
    /\ picRels' = [picRels EXCEPT ![sheet] = relsWith(@, media)]
    /\ picAnchors' = [picAnchors EXCEPT ![sheet] = Append(@, drawingRIDOf(relsWith(picRels[sheet], media), media))]

DoAddPicture ==
    /\ picOps < MaxPicOps
    /\ picOps' = picOps + 1
    /\ \E sheet \in PicSheets, file \in PicFiles :
          IF sameMedia(picPkg, file) /= {}
          THEN \E media \in sameMedia(picPkg, file) : AddPictureAs(sheet, file, media)
          ELSE AddPictureAs(sheet, file, countMedia(picPkg) + 1)
    /\ Frame({"pic"})

\* DeletePicture(sheet, "A1") when the cell holds pictures: rel is the
\* relationship of the last one
DeletePictureOf(sheet, rel) ==
    /\ picAnchors' = [picAnchors EXCEPT ![sheet] = <<>>]
    /\ IF rel = <<>> THEN UNCHANGED <<picPkg, picRels>>
       ELSE /\ picPkg' = IF picUsed(picRels, sheet, rel[1]) THEN picPkg
                         ELSE PkgDelete(picPkg, rel[1].Target)
            /\ picRels' = [picRels EXCEPT ![sheet] = SelectSeq(@, LAMBDA r : r.ID /= rel[1].ID)]

DoDeletePicture ==
    /\ picOps < MaxPicOps
    /\ picOps' = picOps + 1
    /\ \E sheet \in PicSheets :
          IF picAnchors[sheet] = <<>> THEN UNCHANGED <<picPkg, picRels, picAnchors>>
          ELSE DeletePictureOf(sheet, getDrawingRelationships(picRels[sheet],
                                   picAnchors[sheet][Len(picAnchors[sheet])]))
    /\ Frame({"pic"})

NextPictures == DoAddPicture \/ DoDeletePicture

SpecPictures == InitPictures /\ [][NextPictures]_vars

\* C29: after any sequence of AddPicture and DeletePicture calls adding a
\* new image never reuses the name of a media part that still exists: no
\* call changes the bytes of a part the package keeps.
C29_NoNameReuse ==
    [][\A k \in DOMAIN picPkg \cap DOMAIN picPkg' : picPkg'[k] = picPkg[k]]_vars

(***************************************************************************)
(* AddComment and GetComments on the comments part of one sheet.  cmts is  *)
(* what commentsReader returns: <<>> for nil before the first comment,     *)
(* else a one-element sequence holding the part.  Author names are short,  *)
(* so the cut at MaxFieldLength leaves them as they are.                   *)
(***************************************************************************)
MaxCmtOps == 3

CmtAuthors == {"", "Alice", "Bob"}

CmtCells == {"A1", "B1"}

\* inStrSlice(a, x, true): the 0-based index of x in a, -1 when absent
inStrSlice(a, x) ==
    IF \E i \in 1..Len(a) : a[i] = x
    THEN (CHOOSE i \in 1..Len(a) : a[i] = x /\ \A j \in 1..(i - 1) : a[j] /= x) - 1
    ELSE -1

\* 'if opts.Author == "" { opts.Author = "Author" }'
authorOf(author) == IF author = "" THEN "Author" ELSE author

\* 'if cmts == nil { cmts = &xlsxComments{Authors: ...{opts.Author}} }'
cmtsOrNew(c, author) ==
    IF c = <<>> THEN [Authors |-> <<author>>, Comment |-> <<>>] ELSE c[1]

\* the authors after the test with inStrSlice
authorsWith(a, author) ==
    IF inStrSlice(a, author) = -1 THEN Append(a, author) ELSE a

\* authorID: set only where the author is appended, else left at 0
authorIDFor(a, author) ==
    IF inStrSlice(a, author) = -1 THEN Len(Append(a, author)) - 1 ELSE 0

\* addComment(commentsXML, opts) on the part c with the author defaulted
addCommentTo(c, cell, author) ==
    [Authors |-> authorsWith(c.Authors, author),
     Comment |-> Append(c.Comment, [Ref |-> cell, AuthorID |-> authorIDFor(c.Authors, author)])]

addComment(c, cell, author) ==
    <<addCommentTo(cmtsOrNew(c, authorOf(author)), cell, authorOf(author))>>

\* GetComments: one Comment for each stored comment
commentOf(a, cmt) ==
    [Author |-> IF cmt.AuthorID < Len(a) THEN a[cmt.AuthorID + 1] ELSE "",
     Cell |-> cmt.Ref, AuthorID |-> cmt.AuthorID]

GetComments(c) ==
    IF c = <<>> THEN <<>>
    ELSE [i \in 1..Len(c[1].Comment) |-> commentOf(c[1].Authors, c[1].Comment[i])]

InitComments ==
    /\ cmts = <<>>
    /\ cmtAdded = <<>>
    /\ cmtOps = 0
    /\ OthersIdle({"cmt"})

DoAddComment ==
    /\ cmtOps < MaxCmtOps
    /\ cmtOps' = cmtOps + 1
    /\ \E cell \in CmtCells, author \in CmtAuthors :
          /\ cmts' = addComment(cmts, cell, author)
          /\ cmtAdded' = Append(cmtAdded, authorOf(author))
    /\ Frame({"cmt"})

NextComments == DoAddComment

SpecComments == InitComments /\ [][NextComments]_vars

\* C30: after any sequence of AddComment calls each stored comment's author
\* id is the index of its author's name in the authors list, and GetComments
\* returns for each comment the author it was added with.
C30_AuthorKept ==
    /\ Len(GetComments(cmts)) = Len(cmtAdded)
    /\ \A i \in 1..Len(cmtAdded) :
          /\ cmts[1].Comment[i].AuthorID = inStrSlice(cmts[1].Authors, cmtAdded[i])
          /\ GetComments(cmts)[i].Author = cmtAdded[i]

====
